---- MODULE Spec2Model ----
(***************************************************************************)
(* A model of the semantic-analysis core of cairo-lang-rs: the identifier  *)
(* table (scope tree + flat map), alias resolution, the import collector   *)
(* and the pass manager.                                                   *)
(***************************************************************************)
EXTENDS Integers, Sequences, FiniteSets, TLC

VARIABLES
    root,          \* Identifiers.root: the tree of Scope nodes, keyed by the path of sub-scope keys
    identifiers,   \* Identifiers.identifiers: the flat map ScopedName -> definition
    last,          \* the last table call: its arguments, the entry it found, its result
    lookup,        \* the running call of Identifiers::get / get_scope: its locals and result
    passes,        \* PassManager.passes
    outcome,       \* what each pass returns on the program at hand
    pm,            \* the call of PassManager::run_on: its position and result
    log,           \* the calls and returns of the passes, in order
    reader,        \* the module files the CodeReader finds
    collector,     \* the ImportCollector
    collected,     \* the call of collect_imports: its argument and result
    codes,         \* PreprocessedProgram.codes: the input files, each [name, code]
    modules,       \* PreprocessedProgram.modules: [module_name, cairo_file], in order
    ran,           \* the pass that last ran on the program and what it returned
    scope_tracker, \* Identifiers.scope_tracker of the program
    label_ctn,     \* UniqueLabelPass.label_ctn
    directives,    \* DirectivesCollectorPass: its builtins and builtins_set
    resolution,    \* a call of resolve_type and the call on its result
    found,         \* a call of search: its name, its scopes and its result
    hooks          \* the Visitor methods the last scope-tracking pass invoked

tableVars == <<root, identifiers, last>>

lookupVars == <<lookup>>

passVars == <<passes, outcome, pm, log>>

importVars == <<reader, collector, collected>>

programVars ==
    <<codes, modules, ran, scope_tracker, label_ctn, directives, resolution, found,
      hooks>>

vars == <<root, identifiers, last, lookup, passes, outcome, pm, log,
          reader, collector, collected, codes, modules, ran, scope_tracker,
          label_ctn, directives, resolution, found, hooks>>

(***************************************************************************)
(* ScopedName: a sequence of segments.  Option<ScopedName> as returned by   *)
(* split() is Some(non-empty) or None; None is the empty sequence.          *)
(***************************************************************************)
\* ScopedName::root
RootName == << >>

\* ScopedName::appended
Appended(name, id) == Append(name, id)

\* ScopedName::extended (named by the specification, not present in the sources)
Extended(name, other) == name \o other

\* ScopedName::split: the first segment and the remainder (None = <<>>)
Split(name) == [name |-> Head(name), rem |-> Tail(name)]

\* Display for ScopedName: the segments joined with the EMPTY string
RECURSIVE to_string(_)
to_string(name) ==
    IF name = << >> THEN "" ELSE Head(name) \o to_string(Tail(name))

(***************************************************************************)
(* IdentifierDefinitionType.  A definition is a record                      *)
(*   tag     the innermost variant                                          *)
(*   wrap    how many Unresolved(..) boxes wrap it                          *)
(*   payload Struct(Option<Rc<StructDefinition>>): NoStruct = None          *)
(*   target  Alias(target)                                                  *)
(***************************************************************************)
\* StructDefinition {full_name, members, size}; members are MemberDefinition
StructDefinition(full_name, members, size) ==
    [full_name |-> full_name, members |-> members, size |-> size]

\* Option::None for a StructDefinition
NoStruct == StructDefinition(<< >>, << >>, 0)

Def(tag, wrap, payload, target) ==
    [tag |-> tag, wrap |-> wrap, payload |-> payload, target |-> target]

\* Option::None for a definition
NoDef == Def("None", 0, NoStruct, << >>)

ConstDef == Def("ConstDef", 0, NoStruct, << >>)
Label == Def("Label", 0, NoStruct, << >>)
Reference == Def("Reference", 0, NoStruct, << >>)
LocalVar == Def("LocalVar", 0, NoStruct, << >>)
Function == Def("Function", 0, NoStruct, << >>)
Namespace == Def("Namespace", 0, NoStruct, << >>)
Struct(payload) == Def("Struct", 0, payload, << >>)

\* a finished definition of a struct without members
SomeStruct == StructDefinition(<<"a">>, << >>, 0)
TempVar == Def("TempVar", 0, NoStruct, << >>)
RValueRef == Def("RValueRef", 0, NoStruct, << >>)
Alias(target) == Def("Alias", 0, NoStruct, target)
Unresolved(inner) == [inner EXCEPT !.wrap = @ + 1]

\* the variant tag of the outermost constructor
OuterTag(d) == IF d.wrap > 0 THEN "Unresolved" ELSE d.tag

is_const(d) == d.wrap = 0 /\ d.tag = "ConstDef"
is_label(d) == d.wrap = 0 /\ d.tag = "Label"
is_local_var(d) == d.wrap = 0 /\ d.tag = "LocalVar"
is_temp_var(d) == d.wrap = 0 /\ d.tag = "TempVar"
is_alias(d) == d.wrap = 0 /\ d.tag = "Alias"
is_rvalue_ref(d) == d.wrap = 0 /\ d.tag = "RValueRef"
is_function(d) == d.wrap = 0 /\ d.tag = "Function"
is_namespace(d) == d.wrap = 0 /\ d.tag = "Namespace"
is_struct(d) == d.wrap = 0 /\ d.tag = "Struct"
is_reference(d) == d.wrap = 0 /\ d.tag = "Reference"
is_unresolved(d) == d.wrap > 0

\* as_unresolved: the boxed definition, or None
as_unresolved(d) == IF d.wrap > 0 THEN [d EXCEPT !.wrap = @ - 1] ELSE NoDef

\* as_alias: the target of Alias(s), looking through Unresolved boxes; None = <<>>
as_alias(d) == IF d.tag = "Alias" THEN d.target ELSE << >>

has_alias(d) == d.tag = "Alias"

is_unresolved_reference(d) == d.wrap > 0 /\ is_reference(as_unresolved(d))

is_unresolved_struct(d) == d.wrap > 0 /\ is_struct(as_unresolved(d))

has_matching_type_TagOnlyBug(self, other) ==
    self = other

has_matching_type(self, other) ==
    CASE OuterTag(self) = "ConstDef" -> is_const(other)
      [] OuterTag(self) = "Label" -> is_label(other)
      [] OuterTag(self) = "Reference" -> is_reference(other)
      [] OuterTag(self) = "LocalVar" -> is_local_var(other)
      [] OuterTag(self) = "Function" -> is_function(other)
      [] OuterTag(self) = "Namespace" -> is_namespace(other)
      [] OuterTag(self) = "Struct" -> is_struct(other)
      [] OuterTag(self) = "TempVar" -> is_temp_var(other)
      [] OuterTag(self) = "RValueRef" -> is_rvalue_ref(other)
      [] OuterTag(self) = "Alias" -> is_alias(other)
      [] OuterTag(self) = "Unresolved" -> is_unresolved(other)

(***************************************************************************)
(* Scope: full_name, sub-scopes and identifiers.  The tree is a function    *)
(* from the path of sub-scope keys leading to a scope (the root: <<>>) to   *)
(* that scope's full_name and identifiers; the sub-scopes of the scope at   *)
(* path p are the paths p \o <<key>> of the domain.                         *)
(***************************************************************************)
Range(s) == {s[i] : i \in 1..Len(s)}

EmptyMap == [x \in {} |-> NoDef]

Put(f, k, v) == [x \in DOMAIN f \cup {k} |-> IF x = k THEN v ELSE f[x]]

\* Scope::new
ScopeNew(full_name) == [full_name |-> full_name, identifiers |-> EmptyMap]

\* Scope::default: the root scope
ScopeDefault == [p \in {RootName} |-> ScopeNew(RootName)]

\* Scope::get_single_scope
HasSingleScope(tree, p, name) == Append(p, name) \in DOMAIN tree

\* lookup results: ResolvedIdentifier {ty, canonical_name, rem} or an error
Resolved(ty, canonical_name, rem) ==
    [kind |-> "Ok", ty |-> ty, name |-> canonical_name, rem |-> rem]

Err(kind, name) == [kind |-> kind, ty |-> NoDef, name |-> name, rem |-> << >>]

\* Scope::get
RECURSIVE ScopeGet(_, _, _)
ScopeGet(tree, p, scoped) ==
    LET name == Split(scoped).name
        rem == Split(scoped).rem
        canonical_name == Appended(tree[p].full_name, name)
    IN  IF rem # << >> /\ HasSingleScope(tree, p, name)
        THEN ScopeGet(tree, Append(p, name), rem)
        ELSE IF name \in DOMAIN tree[p].identifiers
        THEN Resolved(tree[p].identifiers[name], canonical_name, rem)
        ELSE IF HasSingleScope(tree, p, name)
        THEN Err("NotIdentifier", canonical_name)
        ELSE Err("MissingIdentifier", canonical_name)

ScopeAddSubscope_ShortNameBug(tree, p, name) ==
    Put(tree, Append(p, name), ScopeNew(<<name>>))

\* Scope::add_subscope
ScopeAddSubscope(tree, p, name) ==
    Put(tree, Append(p, name), ScopeNew(Appended(tree[p].full_name, name)))

\* Scope::add_identifier: the tree after the insertion and the destination name
RECURSIVE ScopeAddIdentifier(_, _, _, _)
ScopeAddIdentifier(tree, p, scoped, ty) ==
    LET name == Split(scoped).name
        rem == Split(scoped).rem
    IN  IF rem # << >>
        THEN LET t1 == IF ~HasSingleScope(tree, p, name)
                       THEN ScopeAddSubscope(tree, p, name)
                       ELSE tree
             IN  ScopeAddIdentifier(t1, Append(p, name), rem, ty)
        ELSE [tree |-> [tree EXCEPT ![p].identifiers = Put(@, name, ty)],
              dest |-> Appended(tree[p].full_name, name)]

(***************************************************************************)
(* Identifiers: the table.  A table value is [root, identifiers].           *)
(***************************************************************************)
Table(r, ids) == [root |-> r, identifiers |-> ids]

\* Identifiers::default
TableDefault == Table(ScopeDefault, EmptyMap)

\* Identifiers::add_identifier
TableAddIdentifier(t, name, ty) ==
    LET added == ScopeAddIdentifier(t.root, RootName, name, ty)
    IN  Table(added.tree, Put(t.identifiers, added.dest, ty))

\* Identifiers::get_by_full_name (None = NoDef)
get_by_full_name(t, name) ==
    IF name = << >> THEN NoDef
    ELSE LET resolved == ScopeGet(t.root, RootName, name)
         IN  IF resolved.kind # "Ok" THEN NoDef
             ELSE IF resolved.rem # << >> THEN NoDef
             ELSE resolved.ty

add_name_definition_OverwriteBug(t, name, ty, require_registered_type) ==
    LET def == get_by_full_name(t, name)
    IN  IF def # NoDef /\ as_unresolved(def) # NoDef
           /\ ~has_matching_type(ty, as_unresolved(def))
        THEN [res |-> "Preprocess", table |-> t]
        ELSE [res |-> "Ok", table |-> TableAddIdentifier(t, name, ty)]

add_name_definition_WriteBeforeCheckBug(t, name, ty, require_registered_type) ==
    LET def == get_by_full_name(t, name)
        written == TableAddIdentifier(t, name, ty)
    IN  IF def # NoDef
        THEN IF as_unresolved(def) # NoDef
             THEN IF ~has_matching_type(ty, as_unresolved(def))
                  THEN [res |-> "Preprocess", table |-> written]
                  ELSE [res |-> "Ok", table |-> written]
             ELSE [res |-> "Redefinition", table |-> written]
        ELSE IF require_registered_type
        THEN [res |-> "Preprocess", table |-> written]
        ELSE [res |-> "Ok", table |-> written]

\* Identifiers::add_name_definition: the result and the table after the call
add_name_definition(t, name, ty, require_registered_type) ==
    LET def == get_by_full_name(t, name)
    IN  IF def # NoDef
        THEN IF as_unresolved(def) # NoDef
             THEN IF ~has_matching_type(ty, as_unresolved(def))
                  THEN [res |-> "Preprocess", table |-> t]
                  ELSE [res |-> "Ok", table |-> TableAddIdentifier(t, name, ty)]
             ELSE [res |-> "Redefinition", table |-> t]
        ELSE IF require_registered_type
        THEN [res |-> "Preprocess", table |-> t]
        ELSE [res |-> "Ok", table |-> TableAddIdentifier(t, name, ty)]

IdAddIdentifier_NoKindCheckBug(t, name, ty) ==
    LET existing_def == get_by_full_name(t, name)
    IN  IF existing_def # NoDef
           /\ (~is_unresolved(existing_def) \/ ~is_unresolved(ty))
        THEN [res |-> "Redefinition", table |-> t]
        ELSE [res |-> "Ok", table |-> TableAddIdentifier(t, name, ty)]

\* IdVisitor::add_identifier: the identifier collector's guarded insertion
IdAddIdentifier(t, name, ty) ==
    LET existing_def == get_by_full_name(t, name)
    IN  IF existing_def # NoDef
           /\ (~is_unresolved(existing_def) \/ ~is_unresolved(ty))
        THEN [res |-> "Redefinition", table |-> t]
        ELSE IF existing_def # NoDef
           /\ (~(is_reference(existing_def) \/ is_unresolved_reference(existing_def))
               \/ ~(is_reference(ty) \/ is_unresolved_reference(ty)))
        THEN [res |-> "Redefinition", table |-> t]
        ELSE [res |-> "Ok", table |-> TableAddIdentifier(t, name, ty)]

\* IdVisitor::add_unresolved_identifier
IdAddUnresolvedIdentifier(t, name, ty) == IdAddIdentifier(t, name, Unresolved(ty))

(***************************************************************************)
(* Reading the table through aliases: Identifiers::get and get_scope.  A    *)
(* call is a record of its locals; Enter is the code before the loop, and   *)
(* Iterate is one turn of the loop.                                         *)
(*   pc       "loop" while the call is in its loop, "done" once it returned *)
(*   result   what it returned                                              *)
(*   lookups  the names it has walked the scope tree with, in order         *)
(***************************************************************************)
\* how many times one call may walk the scope tree before the model leaves it
MaxLookups == 4

\* Scope::get_scope returned Ok(scope): the scope's full name
ScopeOk(full_name) == [kind |-> "Ok", ty |-> NoDef, name |-> full_name, rem |-> << >>]

\* CairoError::NotScope(full_name, rem, ty)
NotScope(full_name, rem, ty) ==
    [kind |-> "NotScope", ty |-> ty, name |-> full_name, rem |-> rem]

\* Scope::get_scope
RECURSIVE ScopeGetScope(_, _, _)
ScopeGetScope(tree, p, scoped) ==
    IF scoped = << >> THEN ScopeOk(tree[p].full_name)
    ELSE LET name == Split(scoped).name
             rem == Split(scoped).rem
             full_name == Appended(tree[p].full_name, name)
         IN  IF HasSingleScope(tree, p, name) /\ rem # << >>
             THEN ScopeGetScope(tree, Append(p, name), rem)
             ELSE IF name \in DOMAIN tree[p].identifiers
             THEN NotScope(full_name, rem, tree[p].identifiers[name])
             ELSE Err("MissingIdentifier", full_name)

\* no value yet
NoResult == Err("None", << >>)

\* no call is running
Idle ==
    [fn |-> "none", name |-> << >>, pc |-> "idle", current_identifier |-> << >>,
     visited_identifiers |-> {}, resolved |-> NoResult, result |-> NoResult,
     lookups |-> << >>]

\* Identifiers::get up to its loop
get_Enter(t, name) ==
    LET resolved == ScopeGet(t.root, RootName, name)
    IN  [fn |-> "get", name |-> name,
         pc |-> IF resolved.kind = "Ok" THEN "loop" ELSE "done",
         current_identifier |-> name,
         visited_identifiers |-> {name},
         resolved |-> IF resolved.kind = "Ok" THEN resolved ELSE NoResult,
         result |-> IF resolved.kind = "Ok" THEN NoResult ELSE resolved,
         lookups |-> <<name>>]

get_Iterate_NoCycleCheckBug(t, c) ==
    LET alias == as_alias(c.resolved.ty)
        current_identifier == Extended(alias, c.resolved.rem)
        resolved == ScopeGet(t.root, RootName, current_identifier)
    IN  IF ~has_alias(c.resolved.ty)
        THEN [c EXCEPT !.pc = "done", !.result = c.resolved]
        ELSE [c EXCEPT !.current_identifier = current_identifier,
                       !.visited_identifiers = @ \cup {current_identifier},
                       !.lookups = Append(@, current_identifier),
                       !.pc = IF resolved.kind = "Ok" THEN "loop" ELSE "done",
                       !.resolved = IF resolved.kind = "Ok" THEN resolved ELSE @,
                       !.result = IF resolved.kind = "Ok" THEN NoResult ELSE resolved]

\* Identifiers::get, one turn of `while let Some(alias) = resolved.ty.as_alias()`
get_Iterate(t, c) ==
    LET alias == as_alias(c.resolved.ty)
        current_identifier == Extended(alias, c.resolved.rem)
        resolved == ScopeGet(t.root, RootName, current_identifier)
    IN  IF ~has_alias(c.resolved.ty)
        THEN [c EXCEPT !.pc = "done", !.result = c.resolved]
        ELSE IF current_identifier \in c.visited_identifiers
        THEN [c EXCEPT !.current_identifier = current_identifier,
                       !.pc = "done",
                       !.result = Err("Identifier", current_identifier)]
        ELSE [c EXCEPT !.current_identifier = current_identifier,
                       !.visited_identifiers = @ \cup {current_identifier},
                       !.lookups = Append(@, current_identifier),
                       !.pc = IF resolved.kind = "Ok" THEN "loop" ELSE "done",
                       !.resolved = IF resolved.kind = "Ok" THEN resolved ELSE @,
                       !.result = IF resolved.kind = "Ok" THEN NoResult ELSE resolved]

\* Identifiers::get_scope up to its loop
get_scope_Enter(name) ==
    [fn |-> "get_scope", name |-> name, pc |-> "loop",
     current_identifier |-> name, visited_identifiers |-> {},
     resolved |-> NoResult, result |-> NoResult, lookups |-> << >>]

\* Identifiers::get_scope, one turn of its `loop`
get_scope_Iterate(t, c) ==
    LET scope == ScopeGetScope(t.root, RootName, c.current_identifier)
        visited == [c EXCEPT !.visited_identifiers = @ \cup {c.current_identifier},
                             !.lookups = Append(@, c.current_identifier)]
    IN  IF c.current_identifier \in c.visited_identifiers
        THEN [c EXCEPT !.pc = "done",
                       !.result = Err("Identifier", c.current_identifier)]
        ELSE IF scope.kind = "NotScope" /\ is_alias(scope.ty)
        THEN [visited EXCEPT !.current_identifier =
                  IF scope.rem # << >>
                  THEN Appended(scope.ty.target, to_string(scope.rem))
                  ELSE scope.ty.target]
        ELSE [visited EXCEPT !.pc = "done", !.result = scope]

Iterate(t, c) ==
    IF c.fn = "get" THEN get_Iterate(t, c) ELSE get_scope_Iterate(t, c)

\* the call run until it returns, or until it has walked the tree MaxLookups times
RECURSIVE Run(_, _)
Run(t, c) ==
    IF c.pc # "loop" \/ Len(c.lookups) >= MaxLookups THEN c
    ELSE Run(t, Iterate(t, c))

\* Identifiers::get
get(t, name) == Run(t, get_Enter(t, name))

\* Identifiers::get_scope
get_scope(t, name) == Run(t, get_scope_Enter(name))

(***************************************************************************)
(* IdVisitor::visit_import: `from path import id [as alias]` collected in   *)
(* the scope the tracker is in.  An item is [id, alias]; no alias is "".    *)
(***************************************************************************)
AliasedId(id, alias) == [id |-> id, alias |-> alias]

\* AliasedId::identifier
identifier(item) == IF item.alias # "" THEN item.alias ELSE item.id

RECURSIVE visit_import_AliasToPathBug(_, _, _, _)
visit_import_AliasToPathBug(t, current_scope, path, items) ==
    IF items = << >> THEN [res |-> "Ok", table |-> t]
    ELSE LET item == Head(items)
             added == IdAddIdentifier(t, Appended(current_scope, identifier(item)),
                                      Alias(path))
         IN  IF get_by_full_name(t, Appended(path, item.id)) = NoDef
             THEN [res |-> "MissingIdentifier", table |-> t]
             ELSE IF added.res # "Ok"
             THEN [res |-> added.res, table |-> t]
             ELSE visit_import_AliasToPathBug(added.table, current_scope, path, Tail(items))

\* the result and the table after the call; the call returns nothing while
\* get_scope is still looping
RECURSIVE visit_import(_, _, _, _)
visit_import(t, current_scope, path, items) ==
    IF items = << >> THEN [res |-> "Ok", table |-> t]
    ELSE LET item == Head(items)
             alias_dest == Appended(path, item.id)
             scope == get_scope(t, alias_dest)
             added == IdAddIdentifier(t, Appended(current_scope, identifier(item)),
                                      Alias(alias_dest))
         IN  IF get_by_full_name(t, alias_dest) = NoDef /\ scope.pc # "done"
             THEN [res |-> "Unfinished", table |-> t]
             ELSE IF get_by_full_name(t, alias_dest) = NoDef /\ scope.result.kind # "Ok"
             THEN [res |-> scope.result.kind, table |-> t]
             ELSE IF added.res # "Ok"
             THEN [res |-> added.res, table |-> t]
             ELSE visit_import(added.table, current_scope, path, Tail(items))

(***************************************************************************)
(* PassManager: the ordered list of passes and run_on.                      *)
(***************************************************************************)
\* PassManagerBuilder::build: the passes of the default manager, in order
build ==
    <<"ModuleCollector", "UniqueLabel", "IdentifierCollector",
      "DirectivesCollector", "StructCollector">>

\* what Pass::run can return: Ok(()) or one of these errors
PassErrors == {"ModuleNotFound", "Redefinition", "Preprocess"}

\* run_on before its loop: no pass has run, none is running
run_on_Enter == [pc |-> "loop", next |-> 1, running |-> "none", result |-> "none"]

PassManagerIdle == [pc |-> "idle", next |-> 1, running |-> "none", result |-> "none"]

run_on_Return_IgnoreErrorBug(m, res) ==
    [m EXCEPT !.running = "none", !.next = @ + 1]

\* run_on, `t.run(prg)?`: the running pass has returned res
run_on_Return(m, res) ==
    IF res = "Ok"
    THEN [m EXCEPT !.running = "none", !.next = @ + 1]
    ELSE [m EXCEPT !.running = "none", !.pc = "done", !.result = res]

PassVarsIdle ==
    /\ passes = build
    /\ outcome = [p \in Range(build) |-> "Ok"]
    /\ pm = PassManagerIdle
    /\ log = << >>

(***************************************************************************)
(* The import collector.  A file is the sequence of its top-level           *)
(* instructions; the reader maps a module name to its file, or to NoFile.   *)
(***************************************************************************)
Import(name) == [kind |-> "Import", name |-> name]

\* Instruction::Directive(Directive::Lang(_, id))
DirectiveLang(id) == [kind |-> "Directive", directive |-> "Lang", name |-> id]

NoFile == <<[kind |-> "NoFile", name |-> ""]>>

\* Option<String>::None
NoLang == ""

\* LangVisitor::visit_lang
visit_lang(v, id) ==
    IF v.lang # NoLang THEN [res |-> "Message", lang |-> v.lang]
    ELSE [res |-> "Ok", lang |-> id]

\* Directive::visit
DirectiveVisit(v, directive) == visit_lang(v, directive.name)

\* Instruction::visit with a LangVisitor: the Directive arm is empty and the
\* Import arm reaches the default visit_import
InstructionVisitLang(v, ins) ==
    CASE ins.kind = "Directive" -> v
      [] ins.kind = "Import" -> v
      [] OTHER -> v

\* Vec<Instruction>::visit with a LangVisitor
RECURSIVE FileVisitLang(_, _)
FileVisitLang(v, file) ==
    IF file = << >> \/ v.res # "Ok" THEN v
    ELSE FileVisitLang(InstructionVisitLang(v, Head(file)), Tail(file))

\* LangVisitor::lang
LangVisitor_lang(file) == FileVisitLang([res |-> "Ok", lang |-> NoLang], file)

\* Instruction::visit with a DirectDependenciesCollector
InstructionVisitDeps(v, ins) ==
    CASE ins.kind = "Directive" -> v
      [] ins.kind = "Import" -> Append(v, ins.name)
      [] OTHER -> v

\* DirectDependenciesCollector::deps
RECURSIVE deps(_)
deps(file) ==
    IF file = << >> THEN << >>
    ELSE InstructionVisitDeps(<< >>, Head(file)) \o deps(Tail(file))

\* ImportCollector::new
ImportCollectorNew ==
    [current_ancestors |-> << >>, collected_files |-> {}, langs |-> [m \in {} |-> NoLang],
     reads |-> << >>]

\* `self.reader.read(&current_module)?` has returned the code of the module
\* and CairoFile::parse has parsed it: reads keeps the modules read and parsed
read_and_parsed(self, current_module) == [self EXCEPT !.reads = Append(@, current_module)]

IsAncestor_AlsoCollectedBug(self, current_module) ==
    \/ \E i \in 1..Len(self.current_ancestors) : self.current_ancestors[i] = current_module
    \/ current_module \in self.collected_files

\* self.current_ancestors.contains(&current_module)
IsAncestor(self, current_module) ==
    \E i \in 1..Len(self.current_ancestors) : self.current_ancestors[i] = current_module

Returned(kind, ancestors, self) == [res |-> kind, ancestors |-> ancestors, self |-> self]

\* ImportCollector::collect_imports, and its loop over the direct dependencies
RECURSIVE collect_imports(_, _, _)
RECURSIVE collect_deps(_, _, _, _)
collect_imports_NoSkipBug(rd, self, current_module) ==
    IF IsAncestor(self, current_module)
    THEN Returned("CircularDependencies", self.current_ancestors,
                  [self EXCEPT !.current_ancestors = << >>])
    ELSE IF rd[current_module] = NoFile
    THEN Returned("ModuleNotFound", << >>, self)
    ELSE LET cairo_file == rd[current_module]
             lang == LangVisitor_lang(cairo_file)
             pushed == [read_and_parsed(self, current_module)
                            EXCEPT !.current_ancestors = Append(@, current_module)]
             r == collect_deps(rd, pushed, deps(cairo_file), lang.lang)
         IN  IF lang.res # "Ok"
             THEN Returned(lang.res, << >>, read_and_parsed(self, current_module))
             ELSE IF r.res # "Ok" THEN r
             ELSE Returned("Ok", << >>,
                   [r.self EXCEPT
                        !.current_ancestors = SubSeq(@, 1, Len(@) - 1),
                        !.collected_files = @ \cup {current_module},
                        !.langs = Put(@, current_module, lang.lang)])

collect_imports(rd, self, current_module) ==
    IF IsAncestor(self, current_module)
    THEN Returned("CircularDependencies", self.current_ancestors,
                  [self EXCEPT !.current_ancestors = << >>])
    ELSE IF current_module \in self.collected_files
    THEN Returned("Ok", << >>, self)
    ELSE IF rd[current_module] = NoFile
    THEN Returned("ModuleNotFound", << >>, self)
    ELSE LET cairo_file == rd[current_module]
             lang == LangVisitor_lang(cairo_file)
             pushed == [read_and_parsed(self, current_module)
                            EXCEPT !.current_ancestors = Append(@, current_module)]
             r == collect_deps(rd, pushed, deps(cairo_file), lang.lang)
         IN  IF lang.res # "Ok"
             THEN Returned(lang.res, << >>, read_and_parsed(self, current_module))
             ELSE IF r.res # "Ok" THEN r
             ELSE Returned("Ok", << >>,
                   [r.self EXCEPT
                        !.current_ancestors = SubSeq(@, 1, Len(@) - 1),
                        !.collected_files = @ \cup {current_module},
                        !.langs = Put(@, current_module, lang.lang)])

collect_deps(rd, self, pkgs, lang) ==
    IF pkgs = << >> THEN Returned("Ok", << >>, self)
    ELSE LET pkg == Head(pkgs)
             r == collect_imports(rd, self, pkg)
             same_directive ==
                 IF pkg \in DOMAIN r.self.langs THEN r.self.langs[pkg] = lang ELSE TRUE
         IN  IF r.res # "Ok" THEN r
             ELSE IF ~same_directive THEN Returned("InvalidImport", << >>, r.self)
             ELSE collect_deps(rd, r.self, Tail(pkgs), lang)

\* the module names
Modules == {"a", "b", "c"}

NotCollected == [module |-> "", res |-> "none", ancestors |-> << >>]

ImportVarsIdle ==
    /\ reader = [m \in Modules |-> NoFile]
    /\ collector = ImportCollectorNew
    /\ collected = NotCollected

(***************************************************************************)
(* The AST beyond imports and directives.  Option<Vec<T>> is [some, items]. *)
(***************************************************************************)
Some(items) == [some |-> TRUE, items |-> items]

None == [some |-> FALSE, items |-> << >>]

\* Option<String>::None for a label
NoLabel == ""

\* Instruction::If(IfStatement) as parsed: no labels yet
If(instructions, else_branch) ==
    [kind |-> "If", instructions |-> instructions, else_branch |-> else_branch,
     label_neq |-> NoLabel, label_end |-> NoLabel]

\* Instruction::Function(FunctionDef)
FunctionDef(name, implicit_args, input_args, return_values, instructions) ==
    [kind |-> "Function", name |-> name, implicit_args |-> implicit_args,
     input_args |-> input_args, return_values |-> return_values,
     instructions |-> instructions]

\* Instruction::Namespace(Namespace)
NamespaceDef(name, instructions) ==
    [kind |-> "Namespace", name |-> name, instructions |-> instructions]

\* Instruction::Directive(Directive::Builtins(loc, builtins))
DirectiveBuiltins(loc, builtins) ==
    [kind |-> "Directive", directive |-> "Builtins", name |-> "", loc |-> loc,
     builtins |-> builtins]

(***************************************************************************)
(* UniqueLabelPass.                                                         *)
(***************************************************************************)
next_label_NoIncrementBug(ctn) ==
    [label |-> "_anon_label" \o ToString(ctn), label_ctn |-> ctn]

\* UniqueLabelPass::next_label: the label and the counter after it
next_label(ctn) ==
    [label |-> "_anon_label" \o ToString(ctn), label_ctn |-> ctn + 1]

visit_if_NoEndLabelBug(ctn, stmt) ==
    LET neq == next_label(ctn)
    IN  [label_ctn |-> neq.label_ctn, stmt |-> [stmt EXCEPT !.label_neq = neq.label]]

\* UniqueLabelPass::visit_if: the statement and the counter after it
visit_if(ctn, stmt) ==
    LET neq == next_label(ctn)
        end == next_label(neq.label_ctn)
    IN  [label_ctn |-> end.label_ctn,
         stmt |-> [stmt EXCEPT !.label_neq = neq.label, !.label_end = end.label]]

\* Vec<Instruction>::visit with the UniqueLabelPass: Instruction::visit
\* reaches visit_if through IfStatement::visit and walks the instructions of
\* if statements, functions and namespaces
RECURSIVE UniqueLabelVisit(_, _)
UniqueLabelVisit(ctn, instrs) ==
    IF instrs = << >> THEN [label_ctn |-> ctn, instructions |-> << >>]
    ELSE LET ins == Head(instrs)
             stmt == visit_if(ctn, ins)
             then == UniqueLabelVisit(stmt.label_ctn, ins.instructions)
             else == IF ins.else_branch.some
                     THEN UniqueLabelVisit(then.label_ctn, ins.else_branch.items)
                     ELSE [label_ctn |-> then.label_ctn, instructions |-> << >>]
             body == UniqueLabelVisit(ctn, ins.instructions)
             first ==
                 CASE ins.kind = "If" ->
                          [label_ctn |-> else.label_ctn,
                           ins |-> [stmt.stmt EXCEPT
                                      !.instructions = then.instructions,
                                      !.else_branch = IF @.some THEN Some(else.instructions)
                                                      ELSE @]]
                   [] ins.kind \in {"Function", "Namespace"} ->
                          [label_ctn |-> body.label_ctn,
                           ins |-> [ins EXCEPT !.instructions = body.instructions]]
                   [] OTHER -> [label_ctn |-> ctn, ins |-> ins]
             rest == UniqueLabelVisit(first.label_ctn, Tail(instrs))
         IN  [label_ctn |-> rest.label_ctn,
              instructions |-> <<first.ins>> \o rest.instructions]

\* UniqueLabelPass::run: the counter and the modules after it
RECURSIVE UniqueLabel_run(_, _)
UniqueLabel_run(ctn, mods) ==
    IF mods = << >> THEN [res |-> "Ok", label_ctn |-> ctn, modules |-> << >>]
    ELSE LET file == UniqueLabelVisit(ctn, Head(mods).cairo_file)
             rest == UniqueLabel_run(file.label_ctn, Tail(mods))
         IN  [res |-> "Ok", label_ctn |-> rest.label_ctn,
              modules |-> <<[Head(mods) EXCEPT !.cairo_file = file.instructions]>>
                          \o rest.modules]

(***************************************************************************)
(* DirectivesCollectorPass.                                                 *)
(***************************************************************************)
\* DirectivesCollectorPass::default
DirectivesCollectorDefault == [res |-> "Ok", builtins |-> << >>, builtins_set |-> FALSE]

\* DirectivesCollectorPass::visit_builtins
visit_builtins(v, builtins, loc) ==
    IF v.builtins_set THEN [v EXCEPT !.res = "Preprocess"]
    ELSE IF \E i, j \in 1..Len(builtins) : i # j /\ builtins[i] = builtins[j]
    THEN [v EXCEPT !.res = "Preprocess"]
    ELSE [v EXCEPT !.builtins = builtins]

\* Directive::visit with the DirectivesCollectorPass
DirectiveVisitBuiltins(v, d) ==
    CASE d.directive = "Lang" -> v
      [] d.directive = "Builtins" -> visit_builtins(v, d.builtins, d.loc)

\* Vec<Instruction>::visit with the DirectivesCollectorPass: the Directive
\* arm of Instruction::visit is empty
RECURSIVE DirectivesVisit(_, _)
DirectivesVisit(v, instrs) ==
    IF instrs = << >> \/ v.res # "Ok" THEN v
    ELSE LET ins == Head(instrs)
             first ==
                 CASE ins.kind = "Directive" -> v
                   [] ins.kind = "If" ->
                          IF ins.else_branch.some
                          THEN DirectivesVisit(DirectivesVisit(v, ins.instructions),
                                               ins.else_branch.items)
                          ELSE DirectivesVisit(v, ins.instructions)
                   [] ins.kind \in {"Function", "Namespace"} ->
                          DirectivesVisit(v, ins.instructions)
                   [] OTHER -> v
         IN  DirectivesVisit(first, Tail(instrs))

\* DirectivesCollectorPass::run
RECURSIVE DirectivesCollector_run(_, _)
DirectivesCollector_run(v, mods) ==
    IF mods = << >> \/ v.res # "Ok" THEN v
    ELSE DirectivesCollector_run(DirectivesVisit(v, Head(mods).cairo_file), Tail(mods))

(***************************************************************************)
(* CairoType and the declarations that carry types.                         *)
(***************************************************************************)
\* CairoType::Felt
Felt == [ty |-> "Felt", name |-> << >>, is_fully_resolved |-> FALSE, items |-> << >>]

\* CairoType::Id(TypeStruct {name, is_fully_resolved})
TypeId(name, is_fully_resolved) ==
    [ty |-> "Id", name |-> name, is_fully_resolved |-> is_fully_resolved,
     items |-> << >>]

\* CairoType::Tuple
Tuple(items) ==
    [ty |-> "Tuple", name |-> << >>, is_fully_resolved |-> FALSE, items |-> items]

\* CairoType::Pointer(PointerType::Single(pointee))
PointerSingle(pointee) ==
    [ty |-> "Single", name |-> << >>, is_fully_resolved |-> FALSE,
     items |-> <<pointee>>]

\* CairoType::Pointer(PointerType::Double(pointee))
PointerDouble(pointee) ==
    [ty |-> "Double", name |-> << >>, is_fully_resolved |-> FALSE,
     items |-> <<pointee>>]

\* Option<CairoType>::None of a TypedIdentifier
NoType == [ty |-> "None", name |-> << >>, is_fully_resolved |-> FALSE, items |-> << >>]

\* TypedIdentifier {id, ty}
TypedIdentifier(id, ty) == [id |-> id, ty |-> ty]

\* TypedIdentifier::get_type: an identifier without a type is a felt
get_type(arg) == IF arg.ty = NoType THEN Felt ELSE arg.ty

\* MemberInfo {name, ty}
MemberInfo(name, ty) == [name |-> name, ty |-> ty]

\* MemberDefinition {offset, name, cairo_type}
MemberDefinition(offset, name, cairo_type) ==
    [offset |-> offset, name |-> name, cairo_type |-> cairo_type]

\* Instruction::Struct(StructDef)
StructDef(decorators, name, members) ==
    [kind |-> "Struct", decorators |-> decorators, name |-> name, members |-> members]

\* Instruction::Const(ConstantDef)
ConstantDef(name) == [kind |-> "Const", name |-> name]

\* ScopedName::name: the segments joined with "."
RECURSIVE ScopedName_name(_)
ScopedName_name(n) ==
    IF n = << >> THEN ""
    ELSE IF Tail(n) = << >> THEN Head(n)
    ELSE Head(n) \o "." \o ScopedName_name(Tail(n))

\* Instruction::Import(ImportDirective {path, aliased identifiers})
ImportDirective(path, items) ==
    [kind |-> "Import", name |-> ScopedName_name(path), path |-> path, items |-> items]

ARG_SCOPE == "Args"

IMPLICIT_ARG_SCOPE == "ImplicitArgs"

RETURN_SCOPE == "Return"

N_LOCALS_CONSTANT == "SIZEOF_LOCALS"

FELT_SIZE == 1

POINTER_SIZE == 1

(***************************************************************************)
(* ScopeTracker.                                                            *)
(***************************************************************************)
\* ScopeTracker::default
ScopeTrackerDefault ==
    [accessible_scopes |-> << >>, file_lang |-> NoLang, tmp_lang |-> NoLang]

\* ScopeTracker::enter_scope
enter_scope(st, scope) == [st EXCEPT !.accessible_scopes = Append(@, scope)]

exit_scope_NoPopBug(st) == st

\* ScopeTracker::exit_scope
exit_scope(st) ==
    [st EXCEPT !.accessible_scopes =
         IF @ = << >> THEN @ ELSE SubSeq(@, 1, Len(@) - 1)]

\* ScopeTracker::enter_lang
enter_lang(st, lang) == [st EXCEPT !.file_lang = lang, !.tmp_lang = st.file_lang]

\* ScopeTracker::exit_lang
exit_lang(st) == [st EXCEPT !.file_lang = st.tmp_lang, !.tmp_lang = st.file_lang]

\* ScopeTracker::current_scope
ScopeTracker_current_scope(st) == st.accessible_scopes[Len(st.accessible_scopes)]

\* ScopeTracker::next_scope
next_scope(st, name) == Appended(ScopeTracker_current_scope(st), name)

(***************************************************************************)
(* Identifiers: types.  ids is the table, st its scope tracker.  What a     *)
(* function does with a value it has computed is an operator of its own     *)
(* that takes the value.                                                    *)
(***************************************************************************)
\* ScopedName::rev_split, its first component (named by the specification,
\* not present in the sources)
rev_split(name) == <<Head(name)>>

\* str::starts_with on two dotted names whose segments are no prefixes of
\* one another
starts_with(name, prefix) ==
    Len(prefix) <= Len(name) /\ SubSeq(name, 1, Len(prefix)) = prefix

\* Identifiers::search, the scopes from index i down; search_match is the
\* `match self.get(&id)` of one turn
RECURSIVE search_from(_, _, _, _), search_match(_, _, _, _, _)
search_from(ids, name, accessible_scopes, i) ==
    IF i = 0 THEN Err("MissingIdentifier", rev_split(name))
    ELSE search_match(ids, name, accessible_scopes, i,
                      get(ids, Extended(accessible_scopes[i], name)).result)

search_match(ids, name, accessible_scopes, i, res) ==
    IF res.kind = "MissingIdentifier"
       /\ starts_with(Extended(accessible_scopes[i], rev_split(name)), res.name)
    THEN search_from(ids, name, accessible_scopes, i - 1)
    ELSE res

\* a sequence back to front
Reversed(s) == [i \in 1..Len(s) |-> s[Len(s) + 1 - i]]

search_OutermostFirstBug(ids, name, accessible_scopes) ==
    search_from(ids, name, Reversed(accessible_scopes), Len(accessible_scopes))

\* a call of search, the pass after which it was made, and its result;
\* NotSearched when none was made
Searched(pass, name, scopes, res) ==
    [pass |-> pass, name |-> name, scopes |-> scopes, res |-> res]

NotSearched == Searched("none", << >>, << >>, Err("none", << >>))

\* Identifiers::search
search(ids, name, accessible_scopes) ==
    search_from(ids, name, accessible_scopes, Len(accessible_scopes))

\* Identifiers::get_canonical_struct_name, after the search
canonical_struct_name(def) ==
    IF def.kind # "Ok" THEN def
    ELSE IF is_struct(def.ty) \/ is_unresolved_struct(def.ty) THEN def
    ELSE Err("Preprocess", def.name)

only_resolved_struct(def) ==
    IF def.kind # "Ok" THEN def
    ELSE IF is_struct(def.ty) THEN def
    ELSE Err("Preprocess", def.name)

get_canonical_struct_name_ResolvedOnlyBug(ids, st, struct_name) ==
    only_resolved_struct(search(ids, struct_name, st.accessible_scopes))

\* Identifiers::get_canonical_struct_name
get_canonical_struct_name(ids, st, struct_name) ==
    canonical_struct_name(search(ids, struct_name, st.accessible_scopes))

resolved_name_KeepFlagBug(cairo_type, name) ==
    IF name.kind # "Ok" THEN [res |-> name.kind, ty |-> cairo_type]
    ELSE [res |-> "Ok", ty |-> TypeId(name.name, cairo_type.is_fully_resolved)]

\* Identifiers::resolve_type, the Id arm after get_canonical_struct_name
resolved_name(cairo_type, name) ==
    IF name.kind # "Ok" THEN [res |-> name.kind, ty |-> cairo_type]
    ELSE [res |-> "Ok", ty |-> TypeId(name.name, TRUE)]

\* Identifiers::resolve_type, the Tuple and Pointer arms after the resolution
\* of the element types: the first error, or the type with resolved elements
resolved_items(cairo_type, items) ==
    LET failed == {i \in 1..Len(items) : items[i].res # "Ok"}
        first == CHOOSE i \in failed : \A j \in failed : i <= j
    IN  IF failed # {} THEN [res |-> items[first].res, ty |-> cairo_type]
        ELSE [res |-> "Ok",
              ty |-> [cairo_type EXCEPT !.items = [i \in 1..Len(items) |-> items[i].ty]]]

\* Identifiers::resolve_type: the result and the resolved type
RECURSIVE resolve_type(_, _, _)
resolve_type(ids, st, cairo_type) ==
    CASE cairo_type.ty = "Felt" -> [res |-> "Ok", ty |-> Felt]
      [] cairo_type.ty = "Id" ->
             IF cairo_type.is_fully_resolved THEN [res |-> "Ok", ty |-> cairo_type]
             ELSE resolved_name(cairo_type,
                                get_canonical_struct_name(ids, st, cairo_type.name))
      [] cairo_type.ty \in {"Tuple", "Single", "Double"} ->
             resolved_items(cairo_type,
                            [i \in 1..Len(cairo_type.items) |->
                                 resolve_type(ids, st, cairo_type.items[i])])

\* no call of resolve_type has been made
NotResolved ==
    [scopes |-> << >>, ty |-> NoType, first |-> [res |-> "none", ty |-> NoType],
     second |-> [res |-> "none", ty |-> NoType]]

\* resolve_type on the result of a call of resolve_type; a failed call has
\* no result to go on with
resolve_again(ids, st, first) ==
    IF first.res # "Ok" THEN first ELSE resolve_type(ids, st, first.ty)

\* a call of resolve_type by a caller that has entered `scopes`, and the
\* call on its result
Resolution(ids, st, scopes, ty, first) ==
    [scopes |-> scopes, ty |-> ty, first |-> first,
     second |-> resolve_again(ids, st, first)]

\* the scope tracker after enter_scope of each of `scopes`
RECURSIVE entered(_, _)
entered(st, scopes) ==
    IF scopes = << >> THEN st
    ELSE entered(enter_scope(st, Head(scopes)), Tail(scopes))

\* as_struct: the definition of Struct(Some(..)), looking through Unresolved
\* boxes; None = NoStruct
as_struct(d) == IF d.tag = "Struct" THEN d.payload ELSE NoStruct

\* Identifiers::get_struct_definition, after the search
struct_definition(def) ==
    IF def.kind # "Ok" THEN [res |-> def.kind, def |-> NoStruct]
    ELSE IF def.rem # << >> THEN [res |-> "Identifier", def |-> NoStruct]
    ELSE IF as_struct(def.ty) # NoStruct THEN [res |-> "Ok", def |-> as_struct(def.ty)]
    ELSE [res |-> "Preprocess", def |-> NoStruct]

\* Identifiers::get_struct_definition: the result and the definition
get_struct_definition(ids, st, struct_name) ==
    struct_definition(search(ids, struct_name, st.accessible_scopes))

\* Identifiers::get_struct_definition_no_alias, after get_by_full_name
struct_definition_no_alias(def) ==
    IF def = NoDef THEN [res |-> "MissingIdentifier", def |-> NoStruct]
    ELSE IF as_struct(def) # NoStruct THEN [res |-> "Ok", def |-> as_struct(def)]
    ELSE [res |-> "Definition", def |-> NoStruct]

get_struct_definition_no_alias_PlaceholderBug(ids, struct_name) ==
    IF get_by_full_name(ids, struct_name).tag = "Struct"
    THEN [res |-> "Ok", def |-> get_by_full_name(ids, struct_name).payload]
    ELSE struct_definition_no_alias(get_by_full_name(ids, struct_name))

\* Identifiers::get_struct_definition_no_alias
get_struct_definition_no_alias(ids, struct_name) ==
    struct_definition_no_alias(get_by_full_name(ids, struct_name))

\* the size of a struct definition that was looked up
size_of(def) == [res |-> def.res, size |-> def.def.size]

\* Identifiers::get_struct_size
get_struct_size(ids, st, struct_name) ==
    size_of(get_struct_definition(ids, st, struct_name))

\* Identifiers::get_size, the Tuple arm after the sizes of the elements: the
\* first error, or the sum
tuple_size(sizes) ==
    LET failed == {i \in 1..Len(sizes) : sizes[i].res # "Ok"}
        first == CHOOSE i \in failed : \A j \in failed : i <= j
        Sum[i \in 0..Len(sizes)] == IF i = 0 THEN 0 ELSE Sum[i - 1] + sizes[i].size
    IN  IF failed # {} THEN [res |-> sizes[first].res, size |-> 0]
        ELSE [res |-> "Ok", size |-> Sum[Len(sizes)]]

get_size_PointeeSizeBug(ids, st, cairo_type) ==
    [res |-> "Ok", size |-> FELT_SIZE + Len(cairo_type.items)]

\* Identifiers::get_size: the result and the size
RECURSIVE get_size(_, _, _)
get_size(ids, st, cairo_type) ==
    CASE cairo_type.ty = "Felt" -> [res |-> "Ok", size |-> FELT_SIZE]
      [] cairo_type.ty = "Id" ->
             IF cairo_type.is_fully_resolved
             THEN size_of(get_struct_definition_no_alias(ids, cairo_type.name))
             ELSE get_struct_size(ids, st, cairo_type.name)
      [] cairo_type.ty = "Tuple" ->
             tuple_size([i \in 1..Len(cairo_type.items) |->
                             get_size(ids, st, cairo_type.items[i])])
      [] cairo_type.ty \in {"Single", "Double"} ->
             [res |-> "Ok", size |-> POINTER_SIZE]

(***************************************************************************)
(* IdentifierCollectorPass.  A visitor is the result so far, the name the   *)
(* error carries, the table and the scope tracker; hooks is the record of   *)
(* the Visitor methods the traversal has invoked on it.                     *)
(***************************************************************************)
Visitor(res, name, table, st, invoked) ==
    [res |-> res, name |-> name, table |-> table, st |-> st, hooks |-> invoked]

\* the traversal invokes the method `hook` of the visitor on the node `name`:
\* the record keeps the accessible scopes the method finds
Hook(v, hook, name) ==
    [v EXCEPT !.hooks = Append(@, [hook |-> hook, name |-> name,
                                   scopes |-> v.st.accessible_scopes])]

\* the visitor after a guarded insertion of `name`; `?` skips it after an error
Added(v, name, r) ==
    IF v.res # "Ok" THEN v
    ELSE Visitor(r.res, IF r.res = "Ok" THEN << >> ELSE name, r.table, v.st, v.hooks)

\* IdVisitor::add_unresolved_identifier, then `?`
IdAdd(v, name, ty) ==
    IF v.res # "Ok" THEN v
    ELSE Added(v, name, IdAddUnresolvedIdentifier(v.table, name, ty))

\* IdVisitor::handle_function_arguments
RECURSIVE handle_function_arguments(_, _, _)
handle_function_arguments_NoReservedNameBug(v, function_scope, identifier_list) ==
    IF identifier_list = << >> \/ v.res # "Ok" THEN v
    ELSE handle_function_arguments(
             IdAdd(v, Appended(function_scope, Head(identifier_list).id), Reference),
             function_scope, Tail(identifier_list))

handle_function_arguments(v, function_scope, identifier_list) ==
    IF identifier_list = << >> \/ v.res # "Ok" THEN v
    ELSE IF Head(identifier_list).id = N_LOCALS_CONSTANT
    THEN [v EXCEPT !.res = "Preprocess"]
    ELSE handle_function_arguments(
             IdAdd(v, Appended(function_scope, Head(identifier_list).id), Reference),
             function_scope, Tail(identifier_list))

\* IdVisitor::visit_const_def
IdVisitor_visit_const_def(v, c) == IdAdd(v, next_scope(v.st, c.name), ConstDef)

\* IdVisitor::visit_struct_def
IdVisitor_visit_struct_def(v, sd) == IdAdd(v, next_scope(v.st, sd.name), Struct(NoStruct))

\* IdVisitor::visit_import, the visitor after the call
imported(v, r) ==
    IF v.res # "Ok" THEN v ELSE Visitor(r.res, << >>, r.table, v.st, v.hooks)

\* IdVisitor::visit_import
IdVisitor_visit_import(v, el) ==
    imported(v, visit_import(v.table, ScopeTracker_current_scope(v.st), el.path, el.items))

\* IdVisitor::visit_function, `if let Some(ref implicit) = fun.implicit_args`
implicit_arguments(v, function_scope, fun) ==
    IF fun.implicit_args.some
    THEN handle_function_arguments(
             IdAdd(v, Appended(function_scope, IMPLICIT_ARG_SCOPE), Struct(NoStruct)),
             function_scope, fun.implicit_args.items)
    ELSE v

\* IdVisitor::visit_function, `ensure there is no name collision`
name_collision(v, fun) ==
    LET implicit_arg_names == {arg.id : arg \in Range(fun.implicit_args.items)}
        arg_and_return_identifiers == fun.input_args \o fun.return_values.items
    IN  IF v.res = "Ok" /\ fun.implicit_args.some
           /\ \E arg_id \in Range(arg_and_return_identifiers) :
                  arg_id.id \in implicit_arg_names
        THEN [v EXCEPT !.res = "Preprocess"]
        ELSE v

IdVisitor_visit_function_NoCollisionCheckBug(v, fun) ==
    LET function_scope == ScopeTracker_current_scope(v.st)
    IN  IdAdd(IdAdd(implicit_arguments(
                        handle_function_arguments(
                            IdAdd(IdAdd(v, function_scope, Function),
                                  Appended(function_scope, ARG_SCOPE), Struct(NoStruct)),
                            function_scope, fun.input_args),
                        function_scope, fun),
                    Appended(function_scope, RETURN_SCOPE), Struct(NoStruct)),
              Appended(function_scope, N_LOCALS_CONSTANT), ConstDef)

\* IdVisitor::visit_function
IdVisitor_visit_function(v, fun) ==
    LET function_scope == ScopeTracker_current_scope(v.st)
    IN  IdAdd(name_collision(
                  IdAdd(implicit_arguments(
                            handle_function_arguments(
                                IdAdd(IdAdd(v, function_scope, Function),
                                      Appended(function_scope, ARG_SCOPE), Struct(NoStruct)),
                                function_scope, fun.input_args),
                            function_scope, fun),
                        Appended(function_scope, RETURN_SCOPE), Struct(NoStruct)),
                  fun),
              Appended(function_scope, N_LOCALS_CONSTANT), ConstDef)

\* IdVisitor::visit_namespace
IdVisitor_visit_namespace(v, ns) ==
    LET function_scope == next_scope(v.st, ns.name)
    IN  IdAdd(IdAdd(IdAdd(IdAdd(v, function_scope, Namespace),
                          Appended(function_scope, ARG_SCOPE), Struct(NoStruct)),
                    Appended(function_scope, RETURN_SCOPE), Struct(NoStruct)),
              Appended(function_scope, N_LOCALS_CONSTANT), ConstDef)

\* IdVisitor::visit_if
IdVisitor_visit_if(v, el) ==
    IF el.label_neq = NoLabel \/ el.label_end = NoLabel
    THEN [v EXCEPT !.res = "MissingLabel"]
    ELSE IdAdd(IdAdd(v, next_scope(v.st, el.label_neq), Label),
               next_scope(v.st, el.label_end), Label)

\* enter_function and enter_namespace of a visitor that tracks scopes
enter_named(v, hook, n) ==
    [Hook(v, hook, n.name) EXCEPT !.st = enter_scope(@, next_scope(@, n.name))]

\* exit_function and exit_namespace, reached when nothing before failed
exit_named(v, hook, n) ==
    IF v.res # "Ok" THEN v ELSE [Hook(v, hook, n.name) EXCEPT !.st = exit_scope(@)]

\* Vec<Instruction>::visit and Instruction::visit with the IdVisitor
RECURSIVE IdVisit(_, _), IdVisitInstruction(_, _)
IdVisitInstruction_ExitBeforeBodyBug(v, ins) ==
    CASE ins.kind = "Const" ->
             IdVisitor_visit_const_def(Hook(v, "visit_const_def", ins.name), ins)
      [] ins.kind = "Struct" ->
             IdVisitor_visit_struct_def(Hook(v, "visit_struct_def", ins.name), ins)
      [] ins.kind = "Import" -> IdVisitor_visit_import(Hook(v, "visit_import", ins.name), ins)
      [] ins.kind = "If" ->
             IdVisit(IdVisit(IdVisitor_visit_if(Hook(v, "visit_if", ins.label_neq), ins),
                             ins.instructions),
                     ins.else_branch.items)
      [] ins.kind = "Function" ->
             IdVisit(exit_named(IdVisitor_visit_function(
                                    Hook(enter_named(v, "enter_function", ins),
                                         "visit_function", ins.name), ins),
                                "exit_function", ins),
                     ins.instructions)
      [] ins.kind = "Namespace" ->
             IdVisit(exit_named(IdVisitor_visit_namespace(
                                    Hook(enter_named(v, "enter_namespace", ins),
                                         "visit_namespace", ins.name), ins),
                                "exit_namespace", ins),
                     ins.instructions)
      [] OTHER -> v

IdVisit(v, instrs) ==
    IF instrs = << >> \/ v.res # "Ok" THEN v
    ELSE IdVisit(IdVisitInstruction(v, Head(instrs)), Tail(instrs))

IdVisitInstruction(v, ins) ==
    CASE ins.kind = "Const" ->
             IdVisitor_visit_const_def(Hook(v, "visit_const_def", ins.name), ins)
      [] ins.kind = "Struct" ->
             IdVisitor_visit_struct_def(Hook(v, "visit_struct_def", ins.name), ins)
      [] ins.kind = "Import" -> IdVisitor_visit_import(Hook(v, "visit_import", ins.name), ins)
      [] ins.kind = "If" ->
             IdVisit(IdVisit(IdVisitor_visit_if(Hook(v, "visit_if", ins.label_neq), ins),
                             ins.instructions),
                     ins.else_branch.items)
      [] ins.kind = "Function" ->
             exit_named(IdVisit(IdVisitor_visit_function(
                                    Hook(enter_named(v, "enter_function", ins),
                                         "visit_function", ins.name), ins),
                                ins.instructions),
                        "exit_function", ins)
      [] ins.kind = "Namespace" ->
             exit_named(IdVisit(IdVisitor_visit_namespace(
                                    Hook(enter_named(v, "enter_namespace", ins),
                                         "visit_namespace", ins.name), ins),
                                ins.instructions),
                        "exit_namespace", ins)
      [] OTHER -> v

\* Pass::run of the two collectors, before the visit of a module:
\* enter_scope(module_name), then enter_lang(module.lang()?)
enter_module(v, module, lang) ==
    IF lang.res # "Ok"
    THEN [v EXCEPT !.res = lang.res, !.st = enter_scope(@, module.module_name)]
    ELSE [v EXCEPT !.st = enter_lang(enter_scope(@, module.module_name), lang.lang)]

\* Pass::run of the two collectors, after the visit of a module: exit_scope,
\* then exit_lang
exit_module(v) == IF v.res # "Ok" THEN v ELSE [v EXCEPT !.st = exit_lang(exit_scope(@))]

\* IdentifierCollectorPass::run, the loop over the modules
RECURSIVE IdentifierCollector_modules(_, _)
IdentifierCollector_modules(v, mods) ==
    IF mods = << >> \/ v.res # "Ok" THEN v
    ELSE IdentifierCollector_modules(
             exit_module(IdVisit(enter_module(v, Head(mods),
                                              LangVisitor_lang(Head(mods).cairo_file)),
                                 Head(mods).cairo_file)),
             Tail(mods))

\* IdentifierCollectorPass::run
IdentifierCollector_run(ids, mods) ==
    IdentifierCollector_modules(Visitor("Ok", << >>, ids, ScopeTrackerDefault, << >>),
                                mods)

(***************************************************************************)
(* StructCollectorPass.                                                     *)
(***************************************************************************)
\* what the loop of add_struct_def has collected
Members(res, name, members, offset) ==
    [res |-> res, name |-> name, members |-> members, offset |-> offset]

\* StructVisitor::add_struct_def, its loop: the result, the members and the
\* offset after the members of members_list.  add_member is one turn after
\* resolve_type, push_member the turn after get_size.
RECURSIVE add_struct_members(_, _, _, _, _), add_member(_, _, _, _, _, _),
          push_member(_, _, _, _, _, _, _)
add_struct_members(v, members_list, struct_name, offset, members) ==
    IF members_list = << >> THEN Members("Ok", << >>, members, offset)
    ELSE add_member(v, members_list, struct_name, offset, members,
                    resolve_type(v.table, v.st, Head(members_list).ty))

add_member(v, members_list, struct_name, offset, members, cairo_type) ==
    IF cairo_type.res # "Ok" THEN Members(cairo_type.res, << >>, members, offset)
    ELSE IF \E i \in 1..Len(members) : members[i].name = Head(members_list).name
    THEN Members("Redefinition", Appended(struct_name, Head(members_list).name),
                 members, offset)
    ELSE push_member(v, members_list, struct_name, offset, members, cairo_type.ty,
                     get_size(v.table, v.st, cairo_type.ty))

push_member(v, members_list, struct_name, offset, members, cairo_type, size) ==
    IF size.res # "Ok" THEN Members(size.res, << >>, members, offset)
    ELSE add_struct_members(
             v, Tail(members_list), struct_name, offset + size.size,
             Append(members,
                    MemberDefinition(offset, Head(members_list).name, cairo_type)))

\* StructVisitor::add_struct_def, after its loop: the add_name_definition
install_struct_def(v, struct_name, collected_members) ==
    IF collected_members.res # "Ok"
    THEN Visitor(collected_members.res, collected_members.name, v.table, v.st, v.hooks)
    ELSE Added(v, struct_name,
               add_name_definition(
                   v.table, struct_name,
                   Struct(StructDefinition(struct_name, collected_members.members,
                                           collected_members.offset)),
                   TRUE))

\* the members of a list without those whose name an earlier member carries
RECURSIVE FirstOccurrences(_, _)
FirstOccurrences(members_list, seen) ==
    IF members_list = << >> THEN << >>
    ELSE IF Head(members_list).name \in seen
    THEN FirstOccurrences(Tail(members_list), seen)
    ELSE <<Head(members_list)>>
             \o FirstOccurrences(Tail(members_list), seen \cup {Head(members_list).name})

add_struct_def_DropsDuplicatesBug(v, members_list, struct_name) ==
    IF v.res # "Ok" THEN v
    ELSE install_struct_def(v, struct_name,
                            add_struct_members(v, FirstOccurrences(members_list, {}),
                                               struct_name, 0, << >>))

\* StructVisitor::add_struct_def
add_struct_def(v, members_list, struct_name) ==
    IF v.res # "Ok" THEN v
    ELSE install_struct_def(v, struct_name,
                            add_struct_members(v, members_list, struct_name, 0, << >>))

\* StructVisitor::create_struct_from_identifier_list
create_struct_from_identifier_list(v, identifier_list, scope) ==
    add_struct_def(v, [i \in 1..Len(identifier_list) |->
                           MemberInfo(identifier_list[i].id, get_type(identifier_list[i]))],
                   scope)

\* StructVisitor::visit_struct_def
StructVisitor_visit_struct_def(v, elem) ==
    IF elem.decorators # << >> THEN [v EXCEPT !.res = "Preprocess"]
    ELSE add_struct_def(v, elem.members, next_scope(v.st, elem.name))

\* StructVisitor::visit_function, `if let Some(ref implicit) = fun.implicit_args`
implicit_struct(v, function_scope, fun) ==
    IF fun.implicit_args.some
    THEN create_struct_from_identifier_list(
             v, fun.implicit_args.items, Appended(function_scope, IMPLICIT_ARG_SCOPE))
    ELSE v

StructVisitor_visit_function_NoEmptyReturnBug(v, fun) ==
    IF fun.return_values.some
    THEN create_struct_from_identifier_list(
             implicit_struct(
                 create_struct_from_identifier_list(
                     v, fun.input_args,
                     Appended(ScopeTracker_current_scope(v.st), ARG_SCOPE)),
                 ScopeTracker_current_scope(v.st), fun),
             fun.return_values.items,
             Appended(ScopeTracker_current_scope(v.st), RETURN_SCOPE))
    ELSE implicit_struct(
             create_struct_from_identifier_list(
                 v, fun.input_args, Appended(ScopeTracker_current_scope(v.st), ARG_SCOPE)),
             ScopeTracker_current_scope(v.st), fun)

\* StructVisitor::visit_function
StructVisitor_visit_function(v, fun) ==
    LET function_scope == ScopeTracker_current_scope(v.st)
    IN  create_struct_from_identifier_list(
            implicit_struct(
                create_struct_from_identifier_list(
                    v, fun.input_args, Appended(function_scope, ARG_SCOPE)),
                function_scope, fun),
            fun.return_values.items, Appended(function_scope, RETURN_SCOPE))

\* StructVisitor::visit_namespace
StructVisitor_visit_namespace(v, ns) ==
    LET function_scope == ScopeTracker_current_scope(v.st)
    IN  create_struct_from_identifier_list(
            create_struct_from_identifier_list(
                create_struct_from_identifier_list(
                    v, << >>, Appended(function_scope, ARG_SCOPE)),
                << >>, Appended(function_scope, IMPLICIT_ARG_SCOPE)),
            << >>, Appended(function_scope, RETURN_SCOPE))

\* Vec<Instruction>::visit and Instruction::visit with the StructVisitor
RECURSIVE StructVisit(_, _), StructVisitInstruction(_, _)
StructVisit(v, instrs) ==
    IF instrs = << >> \/ v.res # "Ok" THEN v
    ELSE StructVisit(StructVisitInstruction(v, Head(instrs)), Tail(instrs))

StructVisitInstruction(v, ins) ==
    CASE ins.kind = "Const" -> Hook(v, "visit_const_def", ins.name)
      [] ins.kind = "Struct" ->
             StructVisitor_visit_struct_def(Hook(v, "visit_struct_def", ins.name), ins)
      [] ins.kind = "Import" -> Hook(v, "visit_import", ins.name)
      [] ins.kind = "If" ->
             StructVisit(StructVisit(Hook(v, "visit_if", ins.label_neq), ins.instructions),
                         ins.else_branch.items)
      [] ins.kind = "Function" ->
             exit_named(StructVisit(StructVisitor_visit_function(
                                        Hook(enter_named(v, "enter_function", ins),
                                             "visit_function", ins.name), ins),
                                    ins.instructions),
                        "exit_function", ins)
      [] ins.kind = "Namespace" ->
             exit_named(StructVisit(StructVisitor_visit_namespace(
                                        Hook(enter_named(v, "enter_namespace", ins),
                                             "visit_namespace", ins.name), ins),
                                    ins.instructions),
                        "exit_namespace", ins)
      [] OTHER -> v

\* StructCollectorPass::run, the loop over the modules
RECURSIVE StructCollector_modules(_, _)
StructCollector_modules(v, mods) ==
    IF mods = << >> \/ v.res # "Ok" THEN v
    ELSE StructCollector_modules(
             exit_module(StructVisit(enter_module(v, Head(mods),
                                                  LangVisitor_lang(Head(mods).cairo_file)),
                                     Head(mods).cairo_file)),
             Tail(mods))

\* StructCollectorPass::run
StructCollector_run(ids, st, mods) ==
    StructCollector_modules(Visitor("Ok", << >>, ids, st, << >>), mods)

(***************************************************************************)
(* PreprocessedProgram and the ModuleCollector pass.                        *)
(***************************************************************************)
\* ScopedName::main_scope
main_scope == <<"__main__">>

\* CairoContent: a source file, the stem of its path and its code
CairoContent(name, code) == [name |-> name, code |-> code]

\* CairoModule::new
CairoModule(module_name, cairo_file) ==
    [module_name |-> module_name, cairo_file |-> cairo_file]

\* no pass has run on the program
NotRun == [pass |-> "none", res |-> "none", name |-> << >>]

\* PreprocessedProgram::new with no source file
ProgramVarsIdle ==
    /\ codes = << >>
    /\ modules = << >>
    /\ ran = NotRun
    /\ scope_tracker = ScopeTrackerDefault
    /\ label_ctn = 0
    /\ directives = DirectivesCollectorDefault
    /\ resolution = NotResolved
    /\ found = NotSearched
    /\ hooks = << >>

\* InputCodeReader::read: the content for its own name, the reader otherwise
InputCodeReader(rd, content) ==
    [m \in DOMAIN rd \cup {content.name} |->
        IF m = content.name THEN content.code ELSE rd[m]]

\* the orders in which a HashMap with the keys S can be iterated
Iterations(S) ==
    {s \in [1..Cardinality(S) -> S] : \A i, j \in 1..Cardinality(S) : s[i] = s[j] => i = j}

\* ModuleCollectorPass::run, `for (module_name, cairo_file) in collector.collected_files`
\* iterated in the order `order`: the visited set and the modules after it
RECURSIVE PushCollected(_, _, _, _, _)
PushCollected_NoVisitedCheckBug(order, rd, file_name, visited, mods) ==
    IF order = << >> THEN [visited |-> visited, modules |-> mods]
    ELSE LET module_name == Head(order)
         IN  IF module_name = file_name
             THEN PushCollected(Tail(order), rd, file_name, visited,
                      Append(mods, CairoModule(main_scope, rd[module_name])))
             ELSE PushCollected(Tail(order), rd, file_name, visited \cup {module_name},
                      Append(mods, CairoModule(<<module_name>>, rd[module_name])))

PushCollected(order, rd, file_name, visited, mods) ==
    IF order = << >> THEN [visited |-> visited, modules |-> mods]
    ELSE LET module_name == Head(order)
         IN  IF module_name = file_name
             THEN PushCollected(Tail(order), rd, file_name, visited,
                      Append(mods, CairoModule(main_scope, rd[module_name])))
             ELSE IF module_name \in visited
             THEN PushCollected(Tail(order), rd, file_name, visited, mods)
             ELSE PushCollected(Tail(order), rd, file_name, visited \cup {module_name},
                      Append(mods, CairoModule(<<module_name>>, rd[module_name])))

\* ModuleCollectorPass::run without additional modules, `for content in &prg.codes`:
\* what it can return and leave in prg.modules, one outcome for each order in
\* which the collected files can be iterated
RECURSIVE ModuleCollector_run(_, _, _, _)
ModuleCollector_run(rd, contents, visited, mods) ==
    IF contents = << >> THEN {[res |-> "Ok", modules |-> mods]}
    ELSE LET content == Head(contents)
             input == InputCodeReader(rd, content)
             r == collect_imports(input, ImportCollectorNew, content.name)
         IN  IF r.res # "Ok" THEN {[res |-> r.res, modules |-> mods]}
             ELSE UNION {ModuleCollector_run(rd, Tail(contents), p.visited, p.modules) :
                           p \in {PushCollected(order, input, content.name, visited, mods) :
                                     order \in Iterations(r.self.collected_files)}}

(***************************************************************************)
(* Specification Spec: the table under arbitrary calls of its write paths.  *)
(***************************************************************************)
\* the names the calls are made with
Names == {<<"a">>, <<"a", "b">>, <<"a", "b", "a">>}

\* the definitions the calls are made with
Defs ==
    {ConstDef, Reference, Struct(NoStruct), Struct(SomeStruct), Alias(<<"b">>),
     Unresolved(ConstDef), Unresolved(Reference), Unresolved(Struct(NoStruct)),
     Unresolved(Label), Unresolved(Function), Unresolved(Unresolved(ConstDef))}

NoCall == [op |-> "none", name |-> << >>, ty |-> NoDef, req |-> FALSE,
           before |-> NoDef, res |-> "Ok"]

Call(op, name, ty, req, before, res) ==
    [op |-> op, name |-> name, ty |-> ty, req |-> req, before |-> before, res |-> res]

TableNow == Table(root, identifiers)

\* the entry the flat map holds under a name (None when it holds none)
Entry(name) == IF name \in DOMAIN identifiers THEN identifiers[name] ELSE NoDef

TableInit ==
    /\ root = TableDefault.root
    /\ identifiers = TableDefault.identifiers
    /\ last = NoCall

LookupInit == lookup = Idle

Init == TableInit /\ LookupInit /\ PassVarsIdle /\ ImportVarsIdle /\ ProgramVarsIdle

\* a call of Identifiers::add_identifier
AddIdentifier(name, ty) ==
    LET t == TableAddIdentifier(TableNow, name, ty)
    IN  /\ last = NoCall
        /\ root' = t.root
        /\ identifiers' = t.identifiers
        /\ last' = Call("add_identifier", name, ty, FALSE,
                        Entry(name), "Ok")
        /\ UNCHANGED <<lookupVars, passVars, importVars, programVars>>

\* a call of Identifiers::add_name_definition
AddNameDefinition(name, ty, req) ==
    LET r == add_name_definition(TableNow, name, ty, req)
    IN  /\ last = NoCall
        /\ root' = r.table.root
        /\ identifiers' = r.table.identifiers
        /\ last' = Call("add_name_definition", name, ty, req,
                        Entry(name), r.res)
        /\ UNCHANGED <<lookupVars, passVars, importVars, programVars>>

\* a call of IdVisitor::add_identifier
CollectIdentifier(name, ty) ==
    LET r == IdAddIdentifier(TableNow, name, ty)
    IN  /\ last = NoCall
        /\ root' = r.table.root
        /\ identifiers' = r.table.identifiers
        /\ last' = Call("collect_identifier", name, ty, FALSE,
                        Entry(name), r.res)
        /\ UNCHANGED <<lookupVars, passVars, importVars, programVars>>

\* the call returns to its caller, which has looked at the result
Return ==
    /\ last # NoCall
    /\ last' = NoCall
    /\ UNCHANGED <<root, identifiers>>
    /\ UNCHANGED <<lookupVars, passVars, importVars, programVars>>

Next ==
    \/ \E name \in Names, ty \in Defs : AddIdentifier(name, ty)
    \/ \E name \in Names, ty \in Defs, req \in BOOLEAN : AddNameDefinition(name, ty, req)
    \/ \E name \in Names, ty \in Defs : CollectIdentifier(name, ty)
    \/ Return

Spec == Init /\ [][Next]_vars

(***************************************************************************)
(* Claims about the table's write paths (checked under Spec).               *)
(***************************************************************************)
\* an Unresolved box holding a Reference
RefKind(d) == d.wrap = 1 /\ d.tag = "Reference"

\* C2: when the entry of a name is Unresolved(X), add_name_definition(name, K)
\* succeeds and leaves K as the entry exactly when K has the variant tag of X
\* (whatever the Struct payloads); when the tags differ it returns Preprocess.
C2_ResolvesMatchingPlaceholder ==
    (last.op = "add_name_definition" /\ is_unresolved(last.before)) =>
        IF OuterTag(last.ty) = OuterTag(as_unresolved(last.before))
        THEN /\ last.res = "Ok"
             /\ Entry(last.name) = last.ty
             /\ get_by_full_name(TableNow, last.name) = last.ty
        ELSE last.res = "Preprocess"

\* a Struct(None) placeholder was resolved by a Struct(Some(..)) definition
C2_Witness ==
    /\ last.op = "add_name_definition"
    /\ last.before = Unresolved(Struct(NoStruct))
    /\ last.ty = Struct(SomeStruct)
    /\ last.res = "Ok"

\* C3: add_name_definition on a name holding a resolved definition returns
\* Redefinition whatever kind is passed, and on an absent name with
\* require_registered set it returns an error and inserts nothing.
C3_ResolvedIsFinal ==
    /\ (last.op = "add_name_definition" /\ last.before # NoDef
            /\ ~is_unresolved(last.before))
        => (last.res = "Redefinition" /\ Entry(last.name) = last.before)
    /\ (last.op = "add_name_definition" /\ last.before = NoDef /\ last.req)
        => (last.res # "Ok" /\ Entry(last.name) = NoDef
            /\ get_by_full_name(TableNow, last.name) = NoDef)

\* a resolved struct was defined again, with a placeholder of all things
C3_Witness ==
    /\ last.op = "add_name_definition"
    /\ last.before = Struct(SomeStruct)
    /\ last.ty = Unresolved(Struct(NoStruct))
    /\ last.res = "Redefinition"

\* C4: the identifier collector registers a name that is already present only
\* when the existing and the new definition are both Unresolved boxes of a
\* Reference, and then the entry is the new Unresolved(Reference); every other
\* collision returns Redefinition.
C4_OnlyReferencesRebind ==
    (last.op = "collect_identifier" /\ last.before # NoDef) =>
        IF RefKind(last.before) /\ RefKind(last.ty)
        THEN last.res = "Ok" /\ Entry(last.name) = Unresolved(Reference)
        ELSE last.res = "Redefinition"

\* `tempvar name` then `local name`
C4_Witness ==
    /\ last.op = "collect_identifier"
    /\ last.before = Unresolved(Reference)
    /\ last.ty = Unresolved(Reference)
    /\ last.res = "Ok"
    /\ Entry(last.name) = Unresolved(Reference)

\* C5: every (name, def) of the flat map is found by walking the scope tree
\* from the root with name: the same def, under that name, with no remainder.
C5_FlatMapMatchesTree ==
    \A name \in DOMAIN identifiers :
        ScopeGet(root, RootName, name) = Resolved(identifiers[name], name, << >>)

\* three nested names are registered, the innermost one on top of a scope
\* that add_identifier created on the way
C5_Witness ==
    /\ DOMAIN identifiers = Names
    /\ last.op = "add_name_definition"
    /\ last.res = "Ok"
    /\ last.name = <<"a", "b", "a">>

(***************************************************************************)
(* Specification SpecAlias: a table built by add_identifier and by          *)
(* collected imports, read through Identifiers::get and get_scope.          *)
(***************************************************************************)
\* the names definitions are registered under
AliasNames == {<<"a">>, <<"b">>, <<"a", "b">>, <<"b", "a">>}

\* the definitions registered
AliasDefs ==
    {ConstDef, Alias(<<"a">>), Alias(<<"b">>), Alias(<<"a", "a">>),
     Unresolved(Alias(<<"b">>))}

\* the names looked up
QueryNames ==
    {<<"a">>, <<"b">>, <<"a", "a">>, <<"a", "b">>, <<"b", "a">>, <<"b", "b">>,
     <<"a", "b", "a">>, <<"b", "a", "a">>, <<"b", "b", "a">>}

\* the scopes an import is collected in, the imported module and the items
ImportScopes == {RootName, <<"b">>}

ImportPaths == {<<"a">>}

ImportItems == {AliasedId("b", ""), AliasedId("b", "a"), AliasedId("b", "b")}

\* a call of Identifiers::add_identifier
Register(name, ty) ==
    LET t == TableAddIdentifier(TableNow, name, ty)
    IN  /\ lookup = Idle
        /\ root' = t.root
        /\ identifiers' = t.identifiers
        /\ last' = NoCall
        /\ UNCHANGED <<lookupVars, passVars, importVars, programVars>>

\* the identifier collector visits `from path import item`
VisitImport(current_scope, path, item) ==
    LET r == visit_import(TableNow, current_scope, path, <<item>>)
        name == Appended(current_scope, identifier(item))
    IN  /\ lookup = Idle
        /\ r.res # "Unfinished"
        /\ root' = r.table.root
        /\ identifiers' = r.table.identifiers
        /\ last' = Call("visit_import", name, Alias(Appended(path, item.id)), FALSE,
                        Entry(name), r.res)
        /\ UNCHANGED <<lookupVars, passVars, importVars, programVars>>

\* Identifiers::get is called
StartGet(name) ==
    /\ lookup = Idle
    /\ lookup' = get_Enter(TableNow, name)
    /\ UNCHANGED <<tableVars, passVars, importVars, programVars>>

\* Identifiers::get_scope is called
StartGetScope(name) ==
    /\ lookup = Idle
    /\ lookup' = get_scope_Enter(name)
    /\ UNCHANGED <<tableVars, passVars, importVars, programVars>>

\* the running call takes one turn of its loop
Step ==
    /\ lookup.pc = "loop"
    /\ Len(lookup.lookups) < MaxLookups
    /\ lookup' = Iterate(TableNow, lookup)
    /\ UNCHANGED <<tableVars, passVars, importVars, programVars>>

\* the call has returned and its caller goes on
Finish ==
    /\ lookup.pc = "done"
    /\ lookup' = Idle
    /\ UNCHANGED <<tableVars, passVars, importVars, programVars>>

InitAlias == TableInit /\ LookupInit /\ PassVarsIdle /\ ImportVarsIdle /\ ProgramVarsIdle

NextAlias ==
    \/ \E name \in AliasNames, ty \in AliasDefs : Register(name, ty)
    \/ \E current_scope \in ImportScopes, path \in ImportPaths, item \in ImportItems :
           VisitImport(current_scope, path, item)
    \/ \E name \in QueryNames : StartGet(name)
    \/ \E name \in QueryNames : StartGetScope(name)
    \/ Step
    \/ Finish

SpecAlias == InitAlias /\ [][NextAlias]_vars

(***************************************************************************)
(* Claims about alias resolution (checked under SpecAlias).                 *)
(***************************************************************************)
\* The running get_scope is in a turn that repeats for ever.  The name it
\* holds is an alias target followed by one segment x; the tree stops inside
\* the target, at that very alias, with two segments or more left over; no
\* name visited so far is the target followed by one segment.  The next name
\* is the target followed by the left-over segments joined into one, which is
\* longer than x; the tree stops at the same place again, and so on: the
\* names differ for ever and none is found visited.
Endless(c) ==
    LET scope == ScopeGetScope(root, RootName, c.current_identifier)
        destination == scope.ty.target
        follows(n) == /\ Len(n) = Len(destination) + 1
                      /\ SubSeq(n, 1, Len(destination)) = destination
    IN  /\ c.fn = "get_scope"
        /\ c.pc = "loop"
        /\ scope.kind = "NotScope"
        /\ is_alias(scope.ty)
        /\ follows(c.current_identifier)
        /\ Len(scope.rem) >= 2
        /\ \A n \in c.visited_identifiers : ~follows(n)

\* C6: alias resolution terminates for every table built by add_identifier
\* and every name: no call of Identifiers::get_scope is ever in a loop it
\* cannot leave.
C6_AliasResolutionTerminates == ~Endless(lookup)

NoRepeat(s) == \A i, j \in 1..Len(s) : s[i] = s[j] => i = j

\* the name an alias chain goes to after n, or <<>> when n is not an alias
NextName(n) ==
    LET r == ScopeGet(root, RootName, n)
    IN  IF r.kind = "Ok" /\ has_alias(r.ty) THEN Extended(as_alias(r.ty), r.rem)
        ELSE << >>

\* the alias chain from the last name of s on, up to the first repeated name
RECURSIVE Chain(_)
Chain(s) ==
    LET n == NextName(s[Len(s)])
    IN  IF n = << >> \/ Len(s) >= MaxLookups THEN [names |-> s, repeated |-> << >>]
        ELSE IF n \in Range(s) THEN [names |-> s, repeated |-> n]
        ELSE Chain(Append(s, n))

\* C7: when the alias chain from the queried name comes back to a name it has
\* been at, get returns the cyclic-alias Identifier error at the first such
\* name, having looked up each name of the chain once; it looks no name up
\* twice and never returns an alias as the definition.
C7_CyclicAliasIsAnError ==
    lookup.fn = "get" =>
        /\ NoRepeat(lookup.lookups)
        /\ (lookup.pc = "done" /\ Chain(<<lookup.name>>).repeated # << >>) =>
               /\ lookup.result = Err("Identifier", Chain(<<lookup.name>>).repeated)
               /\ lookup.lookups = Chain(<<lookup.name>>).names
        /\ (lookup.pc = "done" /\ lookup.result.kind = "Ok") =>
               ~has_alias(lookup.result.ty)

\* a is Alias(b), b is Alias(a): get(a) has looked up a and b and failed at a
C7_Witness ==
    /\ lookup.fn = "get"
    /\ lookup.pc = "done"
    /\ lookup.name = <<"a">>
    /\ lookup.lookups = << <<"a">>, <<"b">> >>
    /\ lookup.result = Err("Identifier", <<"a">>)

\* an import has been collected and get has returned for the name it bound,
\* followed by rest
ImportedLookup(rest) ==
    /\ last.op = "visit_import"
    /\ last.res = "Ok"
    /\ lookup.fn = "get"
    /\ lookup.pc = "done"
    /\ lookup.name = last.name \o rest

\* get on the bound name (followed by rest) gives what get on the imported
\* name (followed by rest) gives
ResolvesAsTarget(rest) ==
    LET target == get(TableNow, as_alias(last.ty) \o rest)
    IN  /\ target.pc = "done"
        /\ IF target.result.kind = "Identifier"
           THEN lookup.result.kind = "Identifier"
           ELSE lookup.result = target.result

\* the three statements of C8, the last one for the names where P holds
ImportBindsAlias(P) ==
    /\ (last.op = "visit_import" /\ last.res = "Ok") =>
           get_by_full_name(TableNow, last.name) = last.ty
    /\ ImportedLookup(<< >>) =>
           /\ ResolvesAsTarget(<< >>)
           /\ ~has_alias(Entry(as_alias(last.ty))) =>
                  lookup.result = Resolved(Entry(as_alias(last.ty)), as_alias(last.ty), << >>)
    /\ \A rest \in {<<"a">>} :
           (ImportedLookup(rest) /\ P) => ResolvesAsTarget(rest)

\* C8 as stated: after `from PKG import X as Y` in scope S, get_by_full_name(S.Y)
\* is Alias(PKG.X), get(S.Y) returns the definition under PKG.X, and
\* get(S.Y.rest) resolves as PKG.X.rest.
C8_ImportResolvesToTarget == ImportBindsAlias(TRUE)

\* C8 amended: get(S.Y.rest) resolves as PKG.X.rest provided the table
\* holds no scope named S.Y.
C8_ImportResolvesToTargetUnlessShadowed == ImportBindsAlias(last.name \notin DOMAIN root)

\* a.b is Alias(b) and b.a a constant; `from a import b as b` collected in
\* scope b binds b.b, and get(b.b.a) went through a.b.a and b.a to the constant
C8_Witness ==
    /\ ImportedLookup(<<"a">>)
    /\ last.name = <<"b", "b">>
    /\ lookup.lookups = << <<"b", "b", "a">>, <<"a", "b", "a">>, <<"b", "a">> >>
    /\ lookup.result = Resolved(ConstDef, <<"b", "a">>, << >>)

(***************************************************************************)
(* Specification SpecPassManager: run_on of the default manager on a        *)
(* program each pass of which succeeds or fails.                            *)
(***************************************************************************)
\* run_on is called
RunOn ==
    /\ pm.pc = "idle"
    /\ pm' = run_on_Enter
    /\ UNCHANGED <<passes, outcome, log>>
    /\ UNCHANGED <<tableVars, lookupVars, importVars, programVars>>

\* the loop of run_on calls the next pass
PassStart ==
    /\ pm.pc = "loop"
    /\ pm.running = "none"
    /\ pm.next <= Len(passes)
    /\ pm' = [pm EXCEPT !.running = passes[pm.next]]
    /\ log' = Append(log, [ev |-> "start", pass |-> passes[pm.next]])
    /\ UNCHANGED <<passes, outcome>>
    /\ UNCHANGED <<tableVars, lookupVars, importVars, programVars>>

\* the running pass returns
PassReturn ==
    /\ pm.pc = "loop"
    /\ pm.running # "none"
    /\ pm' = run_on_Return(pm, outcome[pm.running])
    /\ log' = Append(log, [ev |-> "end", pass |-> pm.running])
    /\ UNCHANGED <<passes, outcome>>
    /\ UNCHANGED <<tableVars, lookupVars, importVars, programVars>>

\* the loop of run_on is over: Ok(())
RunOnReturn ==
    /\ pm.pc = "loop"
    /\ pm.running = "none"
    /\ pm.next > Len(passes)
    /\ pm' = [pm EXCEPT !.pc = "done", !.result = "Ok"]
    /\ UNCHANGED <<passes, outcome, log>>
    /\ UNCHANGED <<tableVars, lookupVars, importVars, programVars>>

\* the default manager, and a program on which each pass succeeds or fails
InitPassManager ==
    /\ TableInit
    /\ LookupInit
    /\ ImportVarsIdle
    /\ ProgramVarsIdle
    /\ passes = build
    /\ outcome \in [Range(build) -> {"Ok"} \cup PassErrors]
    /\ pm = PassManagerIdle
    /\ log = << >>

NextPassManager == RunOn \/ PassStart \/ PassReturn \/ RunOnReturn

SpecPassManager == InitPassManager /\ [][NextPassManager]_vars

(***************************************************************************)
(* Claims about the pass manager (checked under SpecPassManager).           *)
(***************************************************************************)
\* the calls and returns of all five passes, in the declared order
RECURSIVE FullLog(_)
FullLog(ps) ==
    IF ps = << >> THEN << >>
    ELSE <<[ev |-> "start", pass |-> Head(ps)], [ev |-> "end", pass |-> Head(ps)]>>
         \o FullLog(Tail(ps))

IsPrefix(s, t) == Len(s) <= Len(t) /\ \A i \in 1..Len(s) : s[i] = t[i]

\* the passes that return an error on this program, by position
Failing == {i \in 1..Len(build) : outcome[build[i]] # "Ok"}

FirstFailing == CHOOSE i \in Failing : \A j \in Failing : i <= j

\* C1: run_on runs ModuleCollector, UniqueLabel, IdentifierCollector,
\* DirectivesCollector, StructCollector in this order, each returning before
\* the next is called; when a pass returns an error no later pass is called
\* and run_on returns that error; when none does, all five run and run_on
\* returns Ok.
C1_PassesRunInOrderUntilError ==
    /\ IsPrefix(log, FullLog(build))
    /\ pm.pc = "done" =>
           IF Failing = {}
           THEN pm.result = "Ok" /\ log = FullLog(build)
           ELSE /\ pm.result = outcome[build[FirstFailing]]
                /\ log = SubSeq(FullLog(build), 1, 2 * FirstFailing)

\* IdentifierCollector, the third pass, failed with Redefinition: run_on
\* returned it and DirectivesCollector was never called
C1_Witness ==
    /\ pm.pc = "done"
    /\ pm.result = "Redefinition"
    /\ FirstFailing = 3
    /\ outcome["StructCollector"] = "Preprocess"
    /\ Len(log) = 6

(***************************************************************************)
(* Specification SpecImports: one collect_imports on a fresh collector,     *)
(* over every small set of module files.                                    *)
(***************************************************************************)
\* how many import directives a file has at most
MaxImports == 2

ImportLists ==
    {s \in UNION {[1..n -> Modules] : n \in 0..MaxImports} :
        \A i, j \in 1..Len(s) : s[i] = s[j] => i = j}

ImportsOf(s) == [i \in 1..Len(s) |-> Import(s[i])]

\* the files: an optional `%lang starknet` followed by the imports
Files ==
    {ImportsOf(s) : s \in ImportLists}
    \cup {<<DirectiveLang("starknet")>> \o ImportsOf(s) : s \in ImportLists}

\* collect_imports(current_module) is called on the new collector and returns
CollectImports(current_module) ==
    LET r == collect_imports(reader, collector, current_module)
    IN  /\ collected = NotCollected
        /\ collector' = r.self
        /\ collected' = [module |-> current_module, res |-> r.res, ancestors |-> r.ancestors]
        /\ UNCHANGED reader
        /\ UNCHANGED <<tableVars, lookupVars, passVars, programVars>>

InitImports ==
    /\ TableInit
    /\ LookupInit
    /\ PassVarsIdle
    /\ ProgramVarsIdle
    /\ reader \in [Modules -> Files \cup {NoFile}]
    /\ collector = ImportCollectorNew
    /\ collected = NotCollected

NextImports == \E current_module \in Modules : CollectImports(current_module)

SpecImports == InitImports /\ [][NextImports]_vars

(***************************************************************************)
(* Claims about the import collector (checked under SpecImports).           *)
(***************************************************************************)
\* the modules a module's file names in import directives
DirectImports(m) ==
    IF reader[m] = NoFile THEN {}
    ELSE {reader[m][i].name : i \in {j \in 1..Len(reader[m]) : reader[m][j].kind = "Import"}}

\* the %lang value written in a module's file (NoLang when it has none)
DeclaredLang(m) ==
    IF \E i \in 1..Len(reader[m]) : reader[m][i].kind = "Directive"
    THEN reader[m][CHOOSE i \in 1..Len(reader[m]) : reader[m][i].kind = "Directive"].name
    ELSE NoLang

\* the modules reachable from the modules of S by one import or more
RECURSIVE ReachFrom(_)
ReachFrom(S) ==
    LET T == S \cup UNION {DirectImports(m) : m \in S}
    IN  IF T = S THEN S ELSE ReachFrom(T)

Reachable(m) == ReachFrom({m})

\* the import graph reachable from m has a cycle
HasCycle(m) == \E n \in Reachable(m) : n \in ReachFrom(DirectImports(n))

\* every module reachable from m has a file
AllFound(m) == \A n \in Reachable(m) : reader[n] # NoFile

\* s is a chain of imports from m whose last module imports a module of s
ClosedChain(s, m) ==
    /\ s # << >>
    /\ s[1] = m
    /\ \A i \in 1..(Len(s) - 1) : s[i + 1] \in DirectImports(s[i])
    /\ \E i \in 1..Len(s) : s[i] \in DirectImports(s[Len(s)])

\* what C9 says of a finished call, for the start modules where P holds
CycleIsReported(P) ==
    collected.res # "none" =>
        /\ collected.res = "CircularDependencies" =>
               /\ HasCycle(collected.module)
               /\ ClosedChain(collected.ancestors, collected.module)
        /\ (HasCycle(collected.module) /\ P) => collected.res = "CircularDependencies"

\* C9 as stated: collect_imports fails with CircularDependencies, carrying
\* the ancestor chain, whenever the import graph reachable from the start
\* module has a cycle, and never when it has none.
C9_CycleIsCircularDependencies == CycleIsReported(TRUE)

\* C9 amended: ... whenever the graph has a cycle and every module reachable
\* from the start module can be read.
C9_CycleIsCircularDependenciesWhenAllFound == CycleIsReported(AllFound(collected.module))

\* a imports c and b, b imports c and a: the diamond over c is passed and the
\* cycle is reported with the chain a, b
C9_Witness ==
    /\ collected.module = "a"
    /\ reader["a"] = <<Import("c"), Import("b")>>
    /\ reader["b"] = <<Import("c"), Import("a")>>
    /\ reader["c"] = << >>
    /\ collected.res = "CircularDependencies"
    /\ collected.ancestors = <<"a", "b">>

\* a module reachable from m imports a module with another %lang value
LangMismatch(m) ==
    \E n \in Reachable(m) : \E d \in DirectImports(n) : DeclaredLang(n) # DeclaredLang(d)

\* C10: when every module is found and the imports have no cycle, import
\* collection fails with InvalidImport exactly when some module imports a
\* module whose %lang value differs from its own.
C10_LangMismatchIsInvalidImport ==
    (collected.res # "none" /\ AllFound(collected.module) /\ ~HasCycle(collected.module)) =>
        (collected.res = "InvalidImport" <=> LangMismatch(collected.module))

(***************************************************************************)
(* Specification SpecModules: the ModuleCollector pass on a program of one  *)
(* or two source files, over every small set of module files.               *)
(***************************************************************************)
\* the files without directives
ModuleFiles == {ImportsOf(s) : s \in ImportLists}

\* the programs: the source file a, alone or followed by a source file b
Programs ==
    {<<CairoContent("a", f)>> : f \in ModuleFiles}
    \cup {<<CairoContent("a", f), CairoContent("b", <<Import("c")>>)>> : f \in ModuleFiles}

\* the ModuleCollector pass runs on the program
RunModuleCollector ==
    /\ ran = NotRun
    /\ \E r \in ModuleCollector_run(reader, codes, {}, modules) :
           /\ modules' = r.modules
           /\ ran' = [pass |-> "ModuleCollector", res |-> r.res, name |-> << >>]
    /\ UNCHANGED <<codes, scope_tracker, label_ctn, directives, resolution, found, hooks>>
    /\ UNCHANGED <<tableVars, lookupVars, passVars, importVars>>

InitModules ==
    /\ TableInit
    /\ LookupInit
    /\ PassVarsIdle
    /\ reader \in [Modules -> ModuleFiles \cup {NoFile}]
    /\ collector = ImportCollectorNew
    /\ collected = NotCollected
    /\ codes \in Programs
    /\ modules = << >>
    /\ ran = NotRun
    /\ scope_tracker = ScopeTrackerDefault
    /\ label_ctn = 0
    /\ directives = DirectivesCollectorDefault
    /\ resolution = NotResolved
    /\ found = NotSearched
    /\ hooks = << >>

NextModules == RunModuleCollector

SpecModules == InitModules /\ [][NextModules]_vars

(***************************************************************************)
(* Claims about the collected modules (checked under SpecModules).          *)
(***************************************************************************)
\* the name a module is imported by: the file stem of the module, which for
\* the module of a source file is the name of that file
ModuleAt(i) ==
    IF modules[i].module_name = main_scope
    THEN {codes[k].name : k \in {n \in 1..Len(codes) : codes[n].code = modules[i].cairo_file}}
    ELSE {modules[i].module_name[1]}

\* the names the file of a module imports
ImportedBy(i) ==
    {modules[i].cairo_file[k].name :
        k \in {n \in 1..Len(modules[i].cairo_file) : modules[i].cairo_file[n].kind = "Import"}}

\* C11: after ModuleCollector succeeds, every module that a module M of
\* prg.modules imports stands at an earlier index than M.
C11_ModulesInPostOrder ==
    (ran.pass = "ModuleCollector" /\ ran.res = "Ok") =>
        \A i, j \in 1..Len(modules) :
            (ModuleAt(j) \cap ImportedBy(i) # {} /\ i # j) => j < i

(***************************************************************************)
(* Specification SpecPipeline: the passes that PassManager::run_on runs     *)
(* after the ModuleCollector, in the order of PassManagerBuilder::build, on *)
(* a program whose modules are collected, imported modules first.           *)
(***************************************************************************)
S_ptr == PointerSingle(TypeId(<<"S">>, FALSE))

T_ptr == PointerSingle(TypeId(<<"T">>, FALSE))

S_val == TypeId(<<"S">>, FALSE)

T_val == TypeId(<<"T">>, FALSE)

NoElse(instructions) == If(instructions, None)

\* the files of the imported module m
LibFiles ==
    {<<StructDef(<< >>, "S", <<MemberInfo("x", S_ptr), MemberInfo("y", S_ptr)>>)>>,
     <<StructDef(<< >>, "S", <<MemberInfo("x", Felt), MemberInfo("y", Tuple(<<Felt, Felt>>))>>),
       NoElse(<< >>)>>,
     <<DirectiveBuiltins(1, <<"pedersen">>),
       StructDef(<< >>, "S", <<MemberInfo("x", Felt)>>)>>}

ImportS == ImportDirective(<<"m">>, <<AliasedId("S", "")>>)

\* the files of the main module that import nothing
PlainFiles ==
    {<<NoElse(<< >>)>>,
     <<If(<<NoElse(<< >>)>>, Some(<<NoElse(<< >>)>>)), NoElse(<< >>)>>,
     <<FunctionDef("f", None, << >>, None, <<NoElse(<< >>)>>),
       NamespaceDef("n", <<If(<< >>, Some(<< >>))>>)>>,
     <<StructDef(<< >>, "S", <<MemberInfo("x", T_ptr), MemberInfo("y", S_ptr)>>),
       StructDef(<< >>, "T", <<MemberInfo("x", Felt), MemberInfo("y", S_val)>>)>>,
     <<StructDef(<< >>, "S", <<MemberInfo("x", T_ptr), MemberInfo("y", Felt),
                               MemberInfo("z", PointerDouble(S_val))>>),
       StructDef(<< >>, "T", <<MemberInfo("x", PointerDouble(T_val)), MemberInfo("y", S_ptr)>>)>>,
     <<StructDef(<< >>, "S", <<MemberInfo("x", T_val)>>),
       StructDef(<< >>, "T", <<MemberInfo("x", Felt)>>)>>,
     <<StructDef(<< >>, "T", <<MemberInfo("x", Felt), MemberInfo("y", PointerDouble(Felt))>>),
       StructDef(<< >>, "S", <<MemberInfo("x", Tuple(<<Felt, PointerDouble(T_val), T_val>>)),
                               MemberInfo("y", T_val), MemberInfo("z", Felt)>>)>>,
     <<StructDef(<< >>, "S", <<MemberInfo("x", Felt), MemberInfo("y", S_val)>>)>>,
     <<StructDef(<< >>, "T", <<MemberInfo("x", Felt)>>),
       StructDef(<< >>, "S", <<MemberInfo("x", T_val),
                               MemberInfo("y", Tuple(<<Felt, S_val>>))>>),
       ConstantDef("X")>>,
     <<StructDef(<< >>, "S", <<MemberInfo("z", Felt), MemberInfo("z", Felt)>>)>>,
     <<StructDef(<< >>, "S", <<MemberInfo("z", Felt), MemberInfo("z", T_val)>>)>>,
     <<StructDef(<<"known">>, "S", <<MemberInfo("z", Felt), MemberInfo("z", Felt)>>)>>,
     <<StructDef(<< >>, "S", << >>),
       FunctionDef("f", None, <<TypedIdentifier("a", NoType), TypedIdentifier("a", S_val)>>,
                   None, << >>)>>,
     <<StructDef(<< >>, "S", <<MemberInfo("x", Felt), MemberInfo("y", Felt)>>),
       FunctionDef("f", None, <<TypedIdentifier("a", S_val), TypedIdentifier("b", NoType)>>,
                   None, << >>)>>,
     <<FunctionDef("f", None, << >>, None, << >>)>>,
     <<StructDef(<< >>, "S", <<MemberInfo("x", Felt)>>),
       FunctionDef("f", None, << >>, None,
                   <<StructDef(<< >>, "S", <<MemberInfo("x", Felt), MemberInfo("y", S_ptr)>>),
                     StructDef(<< >>, "T", <<MemberInfo("x", S_val)>>)>>)>>,
     <<FunctionDef("f", Some(<< >>), << >>, Some(<< >>), << >>)>>,
     <<FunctionDef("f", Some(<<TypedIdentifier("z", NoType)>>),
                   <<TypedIdentifier("z", NoType)>>, None, << >>)>>,
     <<FunctionDef("f", Some(<<TypedIdentifier("y", NoType), TypedIdentifier("z", NoType)>>),
                   <<TypedIdentifier("a", NoType)>>,
                   Some(<<TypedIdentifier("z", NoType)>>), <<ConstantDef("X")>>)>>,
     <<FunctionDef("f", Some(<<TypedIdentifier("z", NoType)>>),
                   <<TypedIdentifier(ARG_SCOPE, NoType), TypedIdentifier("z", NoType)>>,
                   None, << >>)>>,
     <<FunctionDef("f", None, <<TypedIdentifier(N_LOCALS_CONSTANT, NoType)>>, None, << >>)>>,
     <<FunctionDef("f", Some(<<TypedIdentifier(N_LOCALS_CONSTANT, NoType)>>),
                   <<TypedIdentifier("a", NoType)>>, None, <<ConstantDef("X")>>)>>,
     <<FunctionDef("f", None, <<TypedIdentifier(ARG_SCOPE, NoType),
                                TypedIdentifier(N_LOCALS_CONSTANT, NoType)>>,
                   None, <<ConstantDef("X")>>)>>,
     <<FunctionDef("f", None, << >>,
                   Some(<<TypedIdentifier("c", NoType), TypedIdentifier("c", NoType)>>),
                   << >>)>>,
     <<NamespaceDef("n", << >>)>>,
     <<NamespaceDef("n", <<StructDef(<< >>, "Args", << >>), StructDef(<< >>, "ImplicitArgs", << >>),
                           StructDef(<< >>, "Return", << >>)>>)>>,
     <<NamespaceDef("n", <<FunctionDef("n", None, << >>, None, << >>)>>)>>,
     <<DirectiveBuiltins(2, <<"pedersen">>), DirectiveBuiltins(3, <<"range_check">>)>>,
     <<DirectiveBuiltins(2, <<"pedersen", "pedersen">>)>>,
     <<DirectiveBuiltins(2, <<"range_check">>), ConstantDef("X")>>,
     <<ConstantDef("X"), ConstantDef("X")>>}

\* the files of the main module that import S from m
ImportingFiles ==
    {<<ImportS,
       FunctionDef("f", Some(<<TypedIdentifier("z", NoType)>>),
                   <<TypedIdentifier("a", S_val), TypedIdentifier("b", NoType)>>,
                   Some(<<TypedIdentifier("c", S_val)>>),
                   <<StructDef(<< >>, "T", <<MemberInfo("x", S_ptr)>>), ConstantDef("X")>>),
       ConstantDef("Y")>>,
     <<ImportS, StructDef(<< >>, "T", <<MemberInfo("x", S_val), MemberInfo("y", S_ptr)>>),
       NoElse(<< >>)>>,
     <<ImportDirective(<<"m">>, <<AliasedId("S", "T")>>),
       StructDef(<< >>, "S", <<MemberInfo("x", T_val), MemberInfo("y", Tuple(<<T_val, T_ptr>>))>>)>>,
     <<ImportDirective(<<"m">>, <<AliasedId("T", "")>>)>>,
     <<ImportS, DirectiveBuiltins(2, <<"range_check">>)>>}

\* the programs: the modules in the order the ModuleCollector leaves them in
\* when it succeeds in post-order
PipelinePrograms ==
    {<<CairoModule(main_scope, f)>> : f \in PlainFiles}
        \cup {<<CairoModule(<<"m">>, l), CairoModule(main_scope, f)>> :
                  l \in LibFiles, f \in PlainFiles \cup ImportingFiles}

Collected == [pass |-> "ModuleCollector", res |-> "Ok", name |-> << >>]

Returns(pass, res, name) == [pass |-> pass, res |-> res, name |-> name]

\* UniqueLabelPass::run on the program
RunUniqueLabel ==
    /\ ran = Collected
    /\ LET r == UniqueLabel_run(label_ctn, modules)
       IN  /\ modules' = r.modules
           /\ label_ctn' = r.label_ctn
           /\ ran' = Returns("UniqueLabel", r.res, << >>)
    /\ UNCHANGED <<codes, scope_tracker, directives, resolution, found, hooks>>
    /\ UNCHANGED <<tableVars, lookupVars, passVars, importVars>>

\* IdentifierCollectorPass::run on the program
RunIdentifierCollector ==
    /\ ran = Returns("UniqueLabel", "Ok", << >>)
    /\ LET v == IdentifierCollector_run(TableNow, modules)
       IN  /\ root' = v.table.root
           /\ identifiers' = v.table.identifiers
           /\ ran' = Returns("IdentifierCollector", v.res, v.name)
           /\ hooks' = v.hooks
    /\ UNCHANGED <<last, codes, modules, scope_tracker, label_ctn, directives, resolution, found>>
    /\ UNCHANGED <<lookupVars, passVars, importVars>>

\* DirectivesCollectorPass::run on the program
\* IdentifierCollectorPass::run called on a program no UniqueLabel pass has
\* run on, as the test of the struct collector calls it; no other pass
\* follows
RunIdentifierCollectorUnlabelled ==
    /\ ran = Collected
    /\ LET v == IdentifierCollector_run(TableNow, modules)
       IN  /\ root' = v.table.root
           /\ identifiers' = v.table.identifiers
           /\ ran' = Returns("IdentifierCollectorUnlabelled", v.res, v.name)
           /\ hooks' = v.hooks
    /\ UNCHANGED <<last, codes, modules, scope_tracker, label_ctn, directives, resolution, found>>
    /\ UNCHANGED <<lookupVars, passVars, importVars>>

RunDirectivesCollector ==
    /\ ran = Returns("IdentifierCollector", "Ok", << >>)
    /\ directives' = DirectivesCollector_run(directives, modules)
    /\ ran' = Returns("DirectivesCollector", directives'.res, << >>)
    /\ UNCHANGED <<codes, modules, scope_tracker, label_ctn, resolution, found, hooks>>
    /\ UNCHANGED <<tableVars, lookupVars, passVars, importVars>>

\* StructCollectorPass::run on the program
RunStructCollector ==
    /\ ran = Returns("DirectivesCollector", "Ok", << >>)
    /\ LET v == StructCollector_run(TableNow, scope_tracker, modules)
       IN  /\ root' = v.table.root
           /\ identifiers' = v.table.identifiers
           /\ scope_tracker' = v.st
           /\ ran' = Returns("StructCollector", v.res, v.name)
           /\ hooks' = v.hooks
    /\ UNCHANGED <<last, codes, modules, label_ctn, directives, resolution, found>>
    /\ UNCHANGED <<lookupVars, passVars, importVars>>

\* the types resolve_type is called on
ResolvedTypes ==
    {Felt, S_val, T_val, S_ptr, PointerDouble(T_val),
     TypeId(<<"U">>, FALSE), TypeId(<<"f">>, FALSE), TypeId(<<"X">>, FALSE),
     TypeId(<<"m", "S">>, FALSE), TypeId(<<"S", "x">>, FALSE),
     TypeId(<<"m", "S">>, TRUE), TypeId(<<"U">>, TRUE),
     Tuple(<< >>), Tuple(<<Felt, S_val, S_ptr>>),
     Tuple(<<S_val, Tuple(<<T_ptr>>)>>), Tuple(<<TypeId(<<"U">>, TRUE), PointerSingle(Felt)>>)}

\* the scope stacks of the callers: none, a module, a function of the main
\* module
ResolvingScopes ==
    {<< >>, <<main_scope>>, <<(<<"m">>)>>, <<main_scope, <<"__main__", "f">>>>}

\* Identifiers::resolve_type on a type, and again on its result, by a caller
\* that has entered `scopes`, once the DirectivesCollector has run
ResolveType ==
    /\ ran.pass \in {"DirectivesCollector", "StructCollector"}
    /\ resolution = NotResolved
    /\ found = NotSearched
    /\ \E scopes \in ResolvingScopes, ty \in ResolvedTypes :
           resolution' =
               Resolution(TableNow, entered(scope_tracker, scopes), scopes, ty,
                          resolve_type(TableNow, entered(scope_tracker, scopes), ty))
    /\ UNCHANGED <<codes, modules, ran, scope_tracker, label_ctn, directives, found,
                   hooks>>
    /\ UNCHANGED <<tableVars, lookupVars, passVars, importVars>>

\* the names search is called on
SearchedNames ==
    {<<"S">>, <<"T">>, <<"U">>, <<"f">>, <<"X">>, <<"S", "x">>, <<"f", "Args">>,
     <<"f", "U">>, <<"m", "S">>}

\* the scope stacks search is called with
SearchingScopes ==
    ResolvingScopes \cup {<<(<<"m">>), main_scope>>, <<main_scope, <<"__main__", "g">>>>}

\* Identifiers::search on a name with a stack of accessible scopes, once the
\* DirectivesCollector has run
Search ==
    /\ ran.pass \in {"DirectivesCollector", "StructCollector"}
    /\ resolution = NotResolved
    /\ found = NotSearched
    /\ \E name \in SearchedNames, scopes \in SearchingScopes :
           found' = Searched(ran.pass, name, scopes, search(TableNow, name, scopes))
    /\ UNCHANGED <<codes, modules, ran, scope_tracker, label_ctn, directives, resolution,
                   hooks>>
    /\ UNCHANGED <<tableVars, lookupVars, passVars, importVars>>

InitPipeline ==
    /\ TableInit /\ LookupInit /\ PassVarsIdle /\ ImportVarsIdle
    /\ codes = << >>
    /\ modules \in PipelinePrograms
    /\ ran = Collected
    /\ scope_tracker = ScopeTrackerDefault
    /\ label_ctn = 0
    /\ directives = DirectivesCollectorDefault
    /\ resolution = NotResolved
    /\ found = NotSearched
    /\ hooks = << >>

NextPipeline ==
    \/ RunUniqueLabel
    \/ RunIdentifierCollector
    \/ RunIdentifierCollectorUnlabelled
    \/ RunDirectivesCollector
    \/ RunStructCollector
    \/ ResolveType
    \/ Search

SpecPipeline == InitPipeline /\ [][NextPipeline]_vars

\* the label fields of the if statements of a list of instructions, in the
\* order in which a visitor reaches them
RECURSIVE LabelFields(_)
LabelFields(instrs) ==
    IF instrs = << >> THEN << >>
    ELSE LET ins == Head(instrs)
             own == CASE ins.kind = "If" ->
                             <<ins.label_neq, ins.label_end>>
                                 \o LabelFields(ins.instructions)
                                 \o LabelFields(ins.else_branch.items)
                      [] ins.kind \in {"Function", "Namespace"} ->
                             LabelFields(ins.instructions)
                      [] OTHER -> << >>
         IN  own \o LabelFields(Tail(instrs))

\* the label fields of the program, module after module
RECURSIVE ProgramLabelsOf(_)
ProgramLabelsOf(mods) ==
    IF mods = << >> THEN << >>
    ELSE LabelFields(Head(mods).cairo_file) \o ProgramLabelsOf(Tail(mods))

ProgramLabels == ProgramLabelsOf(modules)

\* the N of a label `_anon_label<N>` the pass has handed out
IsAnonLabel(l) == \E n \in 0..label_ctn : l = "_anon_label" \o ToString(n)

LabelNumber(l) == CHOOSE n \in 0..label_ctn : l = "_anon_label" \o ToString(n)

\* C12: once UniqueLabel has run, every label field of every if statement of
\* the program is a name _anon_label<N>, no two label fields carry the same
\* name, and N increases strictly in visit order.
C12_LabelsAreUniqueAndIncreasing ==
    ran.pass \in {"UniqueLabel", "IdentifierCollector", "DirectivesCollector",
                  "StructCollector"} =>
        /\ \A k \in 1..Len(ProgramLabels) : IsAnonLabel(ProgramLabels[k])
        /\ \A i, j \in 1..Len(ProgramLabels) :
               i # j => ProgramLabels[i] # ProgramLabels[j]
        /\ \A i, j \in 1..Len(ProgramLabels) :
               i < j => LabelNumber(ProgramLabels[i]) < LabelNumber(ProgramLabels[j])

\* UniqueLabel has labelled nested if statements with an else branch in the
\* main module and an if statement in the imported module
C12_Witness ==
    /\ ran.pass = "UniqueLabel"
    /\ Len(modules) = 2
    /\ Len(LabelFields(modules[1].cairo_file)) = 2
    /\ Len(LabelFields(modules[2].cairo_file)) = 8

\* the locations of the %builtins directives of a list of instructions
RECURSIVE BuiltinsDirectives(_)
BuiltinsDirectives(instrs) ==
    IF instrs = << >> THEN << >>
    ELSE LET ins == Head(instrs)
             own == CASE ins.kind = "Directive" ->
                             IF ins.directive = "Builtins" THEN <<ins.loc>> ELSE << >>
                      [] ins.kind = "If" ->
                             BuiltinsDirectives(ins.instructions)
                                 \o BuiltinsDirectives(ins.else_branch.items)
                      [] ins.kind \in {"Function", "Namespace"} ->
                             BuiltinsDirectives(ins.instructions)
                      [] OTHER -> << >>
         IN  own \o BuiltinsDirectives(Tail(instrs))

\* the locations of the %builtins directives of the program
RECURSIVE ProgramBuiltinsOf(_)
ProgramBuiltinsOf(mods) ==
    IF mods = << >> THEN << >>
    ELSE BuiltinsDirectives(Head(mods).cairo_file) \o ProgramBuiltinsOf(Tail(mods))

\* C13: when the modules of the program hold two %builtins directives, the
\* DirectivesCollector pass returns a Preprocess error.
C13_SecondBuiltinsIsRejected ==
    (ran.pass = "DirectivesCollector" /\ Len(ProgramBuiltinsOf(modules)) >= 2) =>
        ran.res = "Preprocess"

\* the names under which the table holds a resolved struct definition
InstalledStructs ==
    {n \in DOMAIN identifiers :
         is_struct(identifiers[n]) /\ identifiers[n].payload # NoStruct}

\* the size the members of a struct take by the rule of the sizes: a felt and
\* a pointer take one cell, a tuple the cells of its elements, a named struct
\* the size of the definition the table holds for it
RECURSIVE CellsOf(_)
CellsOf(cairo_type) ==
    CASE cairo_type.ty = "Felt" -> 1
      [] cairo_type.ty \in {"Single", "Double"} -> 1
      [] cairo_type.ty = "Tuple" ->
             LET Sum[i \in 0..Len(cairo_type.items)] ==
                     IF i = 0 THEN 0 ELSE Sum[i - 1] + CellsOf(cairo_type.items[i])
             IN  Sum[Len(cairo_type.items)]
      [] cairo_type.ty = "Id" -> Entry(cairo_type.name).payload.size

\* the cells of the first k members of a struct definition
RECURSIVE CellsBefore(_, _)
CellsBefore(members, k) ==
    IF k = 0 THEN 0
    ELSE CellsBefore(members, k - 1) + CellsOf(members[k].cairo_type)

\* C14: in every struct definition the struct collector has installed, the
\* offset of a member is the sum of the sizes of the members before it, and
\* the size of the struct is the sum of the sizes of all its members.
C14_OffsetsAndSizesAreSums ==
    ran.pass = "StructCollector" =>
        \A n \in InstalledStructs :
            LET def == identifiers[n].payload
            IN  /\ \A i \in 1..Len(def.members) :
                       def.members[i].offset = CellsBefore(def.members, i - 1)
                /\ def.size = CellsBefore(def.members, Len(def.members))

\* the collector has installed T {x: felt, y: felt**} and then
\* S {x: (felt, T**, T), y: T, z: felt}: x at 0, y at 4, z at 6, size 7
C14_Witness ==
    /\ ran = Returns("StructCollector", "Ok", << >>)
    /\ <<"__main__", "S">> \in InstalledStructs
    /\ LET def == identifiers[<<"__main__", "S">>].payload
       IN  /\ Len(def.members) = 3
           /\ def.members[1].cairo_type.ty = "Tuple"
           /\ def.members[2].offset = 4
           /\ def.members[3].offset = 6
           /\ def.size = 7

\* the names of the structs a file declares
DeclaredStructs(file) == {ins.name : ins \in {i \in Range(file) : i.kind = "Struct"}}

\* a pointer, single or double, to a struct the file declares, written with
\* the struct's plain name
PointerTo(file, ty) ==
    /\ ty.ty \in {"Single", "Double"}
    /\ ty.items[1].ty = "Id"
    /\ ~ty.items[1].is_fully_resolved
    /\ Len(ty.items[1].name) = 1
    /\ ty.items[1].name[1] \in DeclaredStructs(file)

\* a struct without decorators whose members carry different names and are
\* felts or pointers to structs of the file
PointerStruct(file, ins) ==
    /\ ins.kind = "Struct"
    /\ ins.decorators = << >>
    /\ \A i, j \in 1..Len(ins.members) :
           i # j => ins.members[i].name # ins.members[j].name
    /\ \A i \in 1..Len(ins.members) :
           ins.members[i].ty = Felt \/ PointerTo(file, ins.members[i].ty)

\* the struct collector has come to instruction k of module mi with nothing
\* but such structs before it
PointerStructsUpTo(mi, k) ==
    /\ \A m \in 1..(mi - 1) :
           \A ins \in Range(modules[m].cairo_file) :
               PointerStruct(modules[m].cairo_file, ins)
    /\ \A j \in 1..k :
           PointerStruct(modules[mi].cairo_file, modules[mi].cairo_file[j])

\* the member type the claim expects: the pointer to the canonical name
CanonicalPointer(module, ty) ==
    IF ty = Felt THEN Felt
    ELSE [ty EXCEPT !.items = <<TypeId(Appended(module.module_name, ty.items[1].name[1]),
                                       TRUE)>>]

\* C15: a struct whose members are felts and pointers to structs of its
\* module, the struct itself and structs declared later included, is
\* installed whatever the order of the declarations: every member takes one
\* cell and a pointer member has the type pointer to the fully-qualified,
\* fully resolved name of the struct it points to.
C15_PointerMembersResolveInAnyOrder ==
    ran.pass = "StructCollector" =>
        \A mi \in 1..Len(modules) :
            \A k \in 1..Len(modules[mi].cairo_file) :
                PointerStructsUpTo(mi, k) =>
                    LET module == modules[mi]
                        ins == module.cairo_file[k]
                        n == Appended(module.module_name, ins.name)
                    IN  /\ n \in InstalledStructs
                        /\ identifiers[n].payload.size = Len(ins.members)
                        /\ identifiers[n].payload.members =
                               [i \in 1..Len(ins.members) |->
                                    MemberDefinition(i - 1, ins.members[i].name,
                                                     CanonicalPointer(module, ins.members[i].ty))]

\* the collector has installed m.S {x: S*, y: S*} of the imported module and,
\* in the main module, S {x: T*, y: felt, z: S**} ahead of T {x: T**, y: S*}
C15_Witness ==
    /\ ran = Returns("StructCollector", "Ok", << >>)
    /\ Len(modules) = 2
    /\ PointerStructsUpTo(2, 2)
    /\ <<"m", "S">> \in InstalledStructs
    /\ identifiers[<<"m", "S">>].payload.members[1].cairo_type =
           PointerSingle(TypeId(<<"m", "S">>, TRUE))
    /\ <<"__main__", "S">> \in InstalledStructs
    /\ identifiers[<<"__main__", "S">>].payload.members[1].cairo_type =
           PointerSingle(TypeId(<<"__main__", "T">>, TRUE))
    /\ identifiers[<<"__main__", "S">>].payload.members[3].cairo_type =
           PointerDouble(TypeId(<<"__main__", "S">>, TRUE))

\* a member list the struct collector makes a struct of: the name of the
\* struct, the module that declares it, the names and the types of the
\* members, and whether the struct carries decorators
MemberList(module, name, names, types, decorated) ==
    [module |-> module, name |-> name, names |-> names, types |-> types,
     decorated |-> decorated]

\* the member lists of the structs and functions at the top of a module
MemberListsOf(module) ==
    LET scope == module.module_name
        OfIds(name, ids) ==
            MemberList(scope, name, [i \in 1..Len(ids) |-> ids[i].id],
                       [i \in 1..Len(ids) |-> get_type(ids[i])], FALSE)
        OfInstruction(ins) ==
            CASE ins.kind = "Struct" ->
                     {MemberList(scope, Appended(scope, ins.name),
                                 [i \in 1..Len(ins.members) |-> ins.members[i].name],
                                 [i \in 1..Len(ins.members) |-> ins.members[i].ty],
                                 ins.decorators # << >>)}
              [] ins.kind = "Function" ->
                     {OfIds(<<scope[1], ins.name, ARG_SCOPE>>, ins.input_args),
                      OfIds(<<scope[1], ins.name, RETURN_SCOPE>>, ins.return_values.items)}
                         \cup (IF ins.implicit_args.some
                               THEN {OfIds(<<scope[1], ins.name, IMPLICIT_ARG_SCOPE>>,
                                           ins.implicit_args.items)}
                               ELSE {})
              [] OTHER -> {}
    IN  UNION {OfInstruction(ins) : ins \in Range(module.cairo_file)}

\* the positions of the members of a list whose name an earlier member carries
Repeats(l) == {j \in 1..Len(l.names) : \E i \in 1..(j - 1) : l.names[i] = l.names[j]}

\* the member lists of the program with two members of the same name
DuplicateLists == {l \in UNION {MemberListsOf(m) : m \in Range(modules)} : Repeats(l) # {}}

\* the first member of a list that repeats a name
FirstRepeat(l) == CHOOSE j \in Repeats(l) : \A k \in Repeats(l) : j <= k

\* C16 as stated: a program with a struct, or with the arguments or return
\* values of a function, that names a member twice makes the struct collector
\* return Redefinition on <struct>.<member>, and no definition is installed
\* for that struct.
C16_DuplicateMemberIsRedefinition ==
    (ran.pass = "StructCollector" /\ DuplicateLists # {}) =>
        /\ ran.res = "Redefinition"
        /\ \E l \in DuplicateLists : ran.name = Appended(l.name, l.names[FirstRepeat(l)])
        /\ \A l \in DuplicateLists : l.name \notin InstalledStructs

\* a type the collector resolves and sizes: a felt, a struct of the module
\* that is installed, a pointer, or a tuple of such types
RECURSIVE Sizable(_, _)
Sizable(module, ty) ==
    CASE ty.ty \in {"Felt", "Single", "Double"} -> TRUE
      [] ty.ty = "Id" ->
             Len(ty.name) = 1 /\ Appended(module, ty.name[1]) \in InstalledStructs
      [] ty.ty = "Tuple" -> \A i \in 1..Len(ty.items) : Sizable(module, ty.items[i])

\* C16: such a program makes the struct collector fail and no definition is
\* installed for that struct; the error is Redefinition on <struct>.<member>
\* when the struct carries no decorators and the types of its members up to
\* the repeated one are resolved and sized.
C16_DuplicateMemberIsRejected ==
    (ran.pass = "StructCollector" /\ DuplicateLists # {}) =>
        /\ ran.res # "Ok"
        /\ \A l \in DuplicateLists : l.name \notin InstalledStructs
        /\ \A l \in DuplicateLists :
               (~l.decorated
                /\ \A i \in 1..FirstRepeat(l) : Sizable(l.module, l.types[i])) =>
                   /\ ran.res = "Redefinition"
                   /\ ran.name = Appended(l.name, l.names[FirstRepeat(l)])

\* the collector has refused f.Args for f(a, a: S) with Redefinition on
\* f.Args.a after it installed S, and f.Args stays a placeholder
C16_Witness ==
    /\ ran = Returns("StructCollector", "Redefinition", <<"__main__", "f", "Args", "a">>)
    /\ DuplicateLists # {}
    /\ <<"__main__", "S">> \in InstalledStructs
    /\ is_unresolved_struct(Entry(<<"__main__", "f", "Args">>))

\* the table holds, under the name `scope`.`name`, a resolved struct
\* definition with `count` members
HoldsStruct(scope, name, count) ==
    /\ Appended(scope, name) \in InstalledStructs
    /\ Len(identifiers[Appended(scope, name)].payload.members) = count

\* C17: when the identifier collector and the struct collector have
\* succeeded, every function F at the top of a module has F.Args,
\* F.ImplicitArgs and F.Return as resolved struct definitions with as many
\* members as F has arguments, implicit arguments and return values (none
\* when F has no such list).
C17_FunctionStructsExist ==
    ran = Returns("StructCollector", "Ok", << >>) =>
        \A module \in Range(modules) :
            \A fun \in {ins \in Range(module.cairo_file) : ins.kind = "Function"} :
                LET F == Appended(module.module_name, fun.name)
                IN  /\ HoldsStruct(F, ARG_SCOPE, Len(fun.input_args))
                    /\ HoldsStruct(F, IMPLICIT_ARG_SCOPE, Len(fun.implicit_args.items))
                    /\ HoldsStruct(F, RETURN_SCOPE, Len(fun.return_values.items))

\* the table holds, under the name `scope`.`name`, a resolved struct
\* definition without members and of size 0
HoldsEmptyStruct(scope, name) ==
    /\ HoldsStruct(scope, name, 0)
    /\ identifiers[Appended(scope, name)].payload.size = 0

\* C18: on a program with a namespace N at the top of a module S, the
\* struct collector succeeds after the identifier collector and the table
\* holds S.N.Args, S.N.ImplicitArgs and S.N.Return as resolved struct
\* definitions without members and of size 0.
C18_NamespaceStructsAreEmpty ==
    ran.pass = "StructCollector" =>
        \A module \in Range(modules) :
            \A ns \in {ins \in Range(module.cairo_file) : ins.kind = "Namespace"} :
                LET N == Appended(module.module_name, ns.name)
                IN  /\ ran.res = "Ok"
                    /\ HoldsEmptyStruct(N, ARG_SCOPE)
                    /\ HoldsEmptyStruct(N, IMPLICIT_ARG_SCOPE)
                    /\ HoldsEmptyStruct(N, RETURN_SCOPE)

\* the names the table holds an Unresolved entry under
UnresolvedNames == {n \in DOMAIN identifiers : is_unresolved(identifiers[n])}

\* C19 as stated: when the last pass of the default pipeline, the struct
\* collector, has succeeded, the identifier map holds no Unresolved entry.
C19_NothingIsLeftUnresolved ==
    ran = Returns("StructCollector", "Ok", << >>) => UnresolvedNames = {}

\* C19: when the struct collector has succeeded, no struct is left
\* Unresolved in the identifier map: the Unresolved entries that remain are
\* functions, constants, labels and references.
C19_NoStructIsLeftUnresolved ==
    ran = Returns("StructCollector", "Ok", << >>) =>
        \A n \in UnresolvedNames :
            /\ ~is_unresolved_struct(identifiers[n])
            /\ \/ is_function(as_unresolved(identifiers[n]))
               \/ is_const(as_unresolved(identifiers[n]))
               \/ is_label(as_unresolved(identifiers[n]))
               \/ is_reference(as_unresolved(identifiers[n]))

\* the pipeline has succeeded on a main module that imports S and declares
\* f{z}(a: S, b) -> (c: S) with a struct and a constant in its body: the
\* structs of f are installed, f and its constant stay Unresolved
C19_Witness ==
    /\ ran = Returns("StructCollector", "Ok", << >>)
    /\ {<<"__main__", "f", ARG_SCOPE>>, <<"__main__", "f", IMPLICIT_ARG_SCOPE>>,
        <<"__main__", "f", RETURN_SCOPE>>, <<"__main__", "f", "T">>} \subseteq InstalledStructs
    /\ is_alias(Entry(<<"__main__", "S">>))
    /\ {<<"__main__", "f">>, <<"__main__", "f", "X">>, <<"__main__", "f", "b">>}
           \subseteq UnresolvedNames

\* every name in a type, at any depth of tuples and pointers, is marked
\* fully resolved
RECURSIVE AllNamesResolved(_)
AllNamesResolved(ty) ==
    CASE ty.ty = "Id" -> ty.is_fully_resolved
      [] ty.ty \in {"Tuple", "Single", "Double"} ->
             \A i \in 1..Len(ty.items) : AllNamesResolved(ty.items[i])
      [] OTHER -> TRUE

\* C20: when resolve_type succeeds on a type, resolve_type on its result
\* succeeds with the same result, and every name in the result is marked
\* fully resolved.
C20_ResolveTypeIsIdempotent ==
    (resolution # NotResolved /\ resolution.first.res = "Ok") =>
        /\ resolution.second = resolution.first
        /\ AllNamesResolved(resolution.first.ty)

\* inside f of the main module, (S, (T*)) has resolved to the imported
\* struct m.S behind the alias S and to the struct T of f's body
C20_Witness ==
    /\ resolution.scopes = <<main_scope, <<"__main__", "f">>>>
    /\ resolution.ty = Tuple(<<S_val, Tuple(<<T_ptr>>)>>)
    /\ resolution.first =
           [res |-> "Ok",
            ty |-> Tuple(<<TypeId(<<"m", "S">>, TRUE),
                           Tuple(<<PointerSingle(TypeId(<<"__main__", "f", "T">>, TRUE))>>)>>)]
    /\ resolution.second = resolution.first

\* what get returns for the searched name in the i-th accessible scope
Attempt(i) == get(TableNow, Extended(found.scopes[i], found.name)).result

\* the i-th accessible scope does not hold the first segment of the name
FirstSegmentMissing(i) ==
    get(TableNow, Appended(found.scopes[i], Head(found.name))).result.kind
        = "MissingIdentifier"

\* the lookup in the i-th accessible scope has failed at the scope or at the
\* first segment of the name
FailedAtFirstSegment(i) ==
    /\ Attempt(i).kind = "MissingIdentifier"
    /\ IsPrefix(Attempt(i).name, Appended(found.scopes[i], Head(found.name)))

\* search has gone past the scopes after the k-th and has returned what the
\* k-th gave; k = 0 when it has gone past all of them
SearchStoppedAt(k) ==
    /\ \A j \in (k + 1)..Len(found.scopes) :
           FailedAtFirstSegment(j) /\ FirstSegmentMissing(j)
    /\ k = 0 => found.res = Err("MissingIdentifier", <<Head(found.name)>>)
    /\ k > 0 => found.res = Attempt(k) /\ ~FailedAtFirstSegment(k)

Invoked(hook, name) == [hook |-> hook, name |-> name]

\* the methods a successful traversal invokes on a list of instructions, read
\* off the syntax tree: the nodes in source order, the children of a node
\* between its own method and the next sibling, the enter_ and exit_ methods
\* of a function or namespace around the node and its children
RECURSIVE StructuralOrder(_)
StructuralOrder(instrs) ==
    IF instrs = << >> THEN << >>
    ELSE LET ins == Head(instrs)
         IN  (CASE ins.kind = "Const" -> <<Invoked("visit_const_def", ins.name)>>
                [] ins.kind = "Struct" -> <<Invoked("visit_struct_def", ins.name)>>
                [] ins.kind = "Import" -> <<Invoked("visit_import", ins.name)>>
                [] ins.kind = "If" ->
                       <<Invoked("visit_if", ins.label_neq)>>
                       \o StructuralOrder(ins.instructions)
                       \o StructuralOrder(ins.else_branch.items)
                [] ins.kind = "Function" ->
                       <<Invoked("enter_function", ins.name),
                         Invoked("visit_function", ins.name)>>
                       \o StructuralOrder(ins.instructions)
                       \o <<Invoked("exit_function", ins.name)>>
                [] ins.kind = "Namespace" ->
                       <<Invoked("enter_namespace", ins.name),
                         Invoked("visit_namespace", ins.name)>>
                       \o StructuralOrder(ins.instructions)
                       \o <<Invoked("exit_namespace", ins.name)>>
                [] OTHER -> << >>)
             \o StructuralOrder(Tail(instrs))

\* the structural order of the modules of the program, one after the other
RECURSIVE ProgramOrder(_)
ProgramOrder(mods) ==
    IF mods = << >> THEN << >>
    ELSE StructuralOrder(Head(mods).cairo_file) \o ProgramOrder(Tail(mods))

\* the methods the last collector has invoked, in the order of the calls
InvokedHooks == [i \in 1..Len(hooks) |-> Invoked(hooks[i].hook, hooks[i].name)]

\* the enter_ methods among the first i calls that have no exit_ yet
RECURSIVE Open(_)
Open(i) ==
    IF i = 0 THEN << >>
    ELSE IF hooks[i].hook \in {"enter_function", "enter_namespace"}
         THEN Append(Open(i - 1), hooks[i])
         ELSE IF hooks[i].hook \in {"exit_function", "exit_namespace"}
              THEN SubSeq(Open(i - 1), 1, Len(Open(i - 1)) - 1)
              ELSE Open(i - 1)

\* the i-th call is an exit_ that closes the innermost open enter_ of the
\* same kind and name
ClosesInnermost(i) ==
    /\ Open(i - 1) # << >>
    /\ Open(i - 1)[Len(Open(i - 1))].name = hooks[i].name
    /\ Open(i - 1)[Len(Open(i - 1))].hook =
           (IF hooks[i].hook = "exit_function" THEN "enter_function" ELSE "enter_namespace")

\* C22: the Visitor methods of a traversal are invoked in the structural
\* order of the source: a node before its children and its later siblings,
\* enter_function and enter_namespace before the hooks of the body, the
\* matching exit_ after them; a failed traversal has invoked a prefix of that
\* order, a successful one all of it, every enter_ closed by its exit_.
C22_HooksFireInStructuralOrder ==
    /\ IsPrefix(InvokedHooks, ProgramOrder(modules))
    /\ \A i \in 1..Len(hooks) :
           hooks[i].hook \in {"exit_function", "exit_namespace"} => ClosesInnermost(i)
    /\ (ran.pass \in {"IdentifierCollector", "IdentifierCollectorUnlabelled",
                      "StructCollector"} /\ ran.res = "Ok") =>
           /\ InvokedHooks = ProgramOrder(modules)
           /\ Open(Len(hooks)) = << >>

\* the struct collector has gone through the function f that follows the
\* struct S and holds the structs S and T: f is entered before its two
\* structs and left after them
C22_Witness ==
    /\ ran = Returns("StructCollector", "Ok", << >>)
    /\ InvokedHooks = <<Invoked("visit_struct_def", "S"), Invoked("enter_function", "f"),
                        Invoked("visit_function", "f"), Invoked("visit_struct_def", "S"),
                        Invoked("visit_struct_def", "T"), Invoked("exit_function", "f")>>

\* the functions of a list of instructions found in the scope `scope`, each
\* with the scope it opens
RECURSIVE FunctionsIn(_, _)
FunctionsIn(instrs, scope) ==
    IF instrs = << >> THEN {}
    ELSE LET ins == Head(instrs)
         IN  (CASE ins.kind = "Function" ->
                       {[scope |-> Appended(scope, ins.name), fun |-> ins]}
                       \cup FunctionsIn(ins.instructions, Appended(scope, ins.name))
                [] ins.kind = "Namespace" ->
                       FunctionsIn(ins.instructions, Appended(scope, ins.name))
                [] ins.kind = "If" ->
                       FunctionsIn(ins.instructions, scope)
                       \cup FunctionsIn(ins.else_branch.items, scope)
                [] OTHER -> {})
             \cup FunctionsIn(Tail(instrs), scope)

\* the functions of the program
ProgramFunctions ==
    UNION {FunctionsIn(modules[i].cairo_file, modules[i].module_name) :
               i \in 1..Len(modules)}

\* the function has an input or implicit argument named SIZEOF_LOCALS
HasReservedArgument(fun) ==
    \E arg \in Range(fun.input_args) \cup Range(fun.implicit_args.items) :
        arg.id = N_LOCALS_CONSTANT

\* the i-th method the identifier collector has invoked is visit_function
\* on f
VisitsFunction(i, f) ==
    /\ ran.pass = "IdentifierCollector"
    /\ hooks[i].hook = "visit_function"
    /\ hooks[i].scopes[Len(hooks[i].scopes)] = f.scope

\* the names visit_function registers for f before and between its arguments
RegisteredWithArguments(f) ==
    ({f.scope, Appended(f.scope, ARG_SCOPE), Appended(f.scope, IMPLICIT_ARG_SCOPE)}
     \cup {Appended(f.scope, arg.id) :
               arg \in Range(f.fun.input_args) \cup Range(f.fun.implicit_args.items)})
    \ {Appended(f.scope, N_LOCALS_CONSTANT)}

\* C23 as stated: the identifier collector's visit of a function with an
\* input or implicit argument named SIZEOF_LOCALS fails with Preprocess, and
\* it is the last method the pass invokes: no instruction of the body is
\* visited.
C23_ReservedArgumentIsPreprocess ==
    \A i \in 1..Len(hooks) : \A f \in ProgramFunctions :
        (VisitsFunction(i, f) /\ HasReservedArgument(f.fun)) =>
            /\ i = Len(hooks)
            /\ ran.res = "Preprocess"

\* C23: the identifier collector's visit of a function with an input or
\* implicit argument named SIZEOF_LOCALS fails, and it is the last method the
\* pass invokes: no instruction of the body is visited.  The error is
\* Preprocess, unless a registration that visit_function makes before it
\* reaches the argument (the function, Args, ImplicitArgs, an earlier
\* argument) has failed with Redefinition.
C23_ReservedArgumentIsRejected ==
    \A i \in 1..Len(hooks) : \A f \in ProgramFunctions :
        (VisitsFunction(i, f) /\ HasReservedArgument(f.fun)) =>
            /\ i = Len(hooks)
            /\ \/ ran.res = "Preprocess"
               \/ ran.res = "Redefinition" /\ ran.name \in RegisteredWithArguments(f)

\* f{SIZEOF_LOCALS}(a) with the constant X in its body: the pass has failed
\* with Preprocess in visit_function, a and ImplicitArgs are registered and X
\* is not
C23_Witness ==
    /\ ran = Returns("IdentifierCollector", "Preprocess", << >>)
    /\ hooks[Len(hooks)].hook = "visit_function"
    /\ \E f \in ProgramFunctions :
           /\ f.fun.implicit_args.some
           /\ HasReservedArgument(f.fun)
           /\ f.fun.instructions = <<ConstantDef("X")>>
    /\ <<"__main__", "f", "a">> \in DOMAIN identifiers
    /\ <<"__main__", "f", "ImplicitArgs">> \in DOMAIN identifiers
    /\ <<"__main__", "f", "X">> \notin DOMAIN identifiers

\* the function has implicit arguments, and an input argument or a return
\* value with the name of one of them
HasCollidingName(fun) ==
    /\ fun.implicit_args.some
    /\ \E arg \in Range(fun.input_args) \cup Range(fun.return_values.items) :
           \E implicit \in Range(fun.implicit_args.items) : arg.id = implicit.id

\* C24 as stated: the identifier collector's visit of a function that has an
\* input argument or return value with the name of one of its implicit
\* arguments fails with Preprocess.
C24_NameCollisionIsPreprocess ==
    \A i \in 1..Len(hooks) : \A f \in ProgramFunctions :
        (VisitsFunction(i, f) /\ HasCollidingName(f.fun)) =>
            /\ i = Len(hooks)
            /\ ran.res = "Preprocess"

\* C24: the identifier collector's visit of a function that has an input
\* argument or return value with the name of one of its implicit arguments
\* fails, never succeeds.  The error is Preprocess, unless one of the
\* registrations visit_function makes before the collision check (the
\* function, Args, ImplicitArgs, Return, an argument) has failed with
\* Redefinition.
C24_NameCollisionIsRejected ==
    \A i \in 1..Len(hooks) : \A f \in ProgramFunctions :
        (VisitsFunction(i, f) /\ HasCollidingName(f.fun)) =>
            /\ i = Len(hooks)
            /\ \/ ran.res = "Preprocess"
               \/ /\ ran.res = "Redefinition"
                  /\ ran.name \in RegisteredWithArguments(f)
                                      \cup {Appended(f.scope, RETURN_SCOPE)}

\* f{y, z}(a) -> (z): the pass has failed with Preprocess in visit_function
\* after it has registered the arguments and the three structs
C24_Witness ==
    /\ ran = Returns("IdentifierCollector", "Preprocess", << >>)
    /\ hooks[Len(hooks)].hook = "visit_function"
    /\ \E f \in ProgramFunctions :
           /\ HasCollidingName(f.fun)
           /\ ~HasReservedArgument(f.fun)
           /\ \E arg \in Range(f.fun.return_values.items) :
                  \E implicit \in Range(f.fun.implicit_args.items) : arg.id = implicit.id
           /\ {Appended(f.scope, n) : n \in {ARG_SCOPE, IMPLICIT_ARG_SCOPE, RETURN_SCOPE,
                                              "a", "y", "z"}}
                  \subseteq DOMAIN identifiers
           /\ Appended(f.scope, N_LOCALS_CONSTANT) \notin DOMAIN identifiers

\* how many times the collector has read and parsed the module m
TimesRead(m) == Cardinality({i \in 1..Len(collector.reads) : collector.reads[i] = m})

\* C25: after collect_imports(M) has succeeded the collector holds a file
\* and a %lang entry for exactly the modules reachable from M through import
\* directives, M included, and has read and parsed each of them exactly once
\* and no other module.
C25_CollectsReachableModulesOnce ==
    collected.res = "Ok" =>
        /\ collector.collected_files = Reachable(collected.module)
        /\ DOMAIN collector.langs = Reachable(collected.module)
        /\ \A m \in Modules :
               TimesRead(m) = (IF m \in Reachable(collected.module) THEN 1 ELSE 0)

\* a imports b and c, b imports c: c is reached along two paths and the
\* three modules are read once each, a first
C25_Witness ==
    /\ collected = [module |-> "a", res |-> "Ok", ancestors |-> << >>]
    /\ reader["a"] = <<Import("b"), Import("c")>>
    /\ reader["b"] = <<Import("c")>>
    /\ reader["c"] = << >>
    /\ collector.collected_files = {"a", "b", "c"}
    /\ collector.reads = <<"a", "b", "c">>

\* the identifier collector has invoked visit_if, as its i-th method, on an
\* if statement whose labels are not set
VisitsUnlabelledIf(i) ==
    /\ ran.pass \in {"IdentifierCollector", "IdentifierCollectorUnlabelled"}
    /\ hooks[i].hook = "visit_if"
    /\ hooks[i].name = NoLabel

\* C26: the identifier collector's visit of an if statement whose labels are
\* not set fails with MissingLabel, and it is the last method the pass
\* invokes; the identifier collector that runs after UniqueLabel has
\* returned, as in the default pipeline, never returns MissingLabel.
C26_MissingLabelOnlyWithoutUniqueLabel ==
    /\ \A i \in 1..Len(hooks) :
           VisitsUnlabelledIf(i) => (i = Len(hooks) /\ ran.res = "MissingLabel")
    /\ ran.pass = "IdentifierCollector" => ran.res # "MissingLabel"

\* the identifier collector, called on a program UniqueLabel has not run on,
\* has registered the function f and failed with MissingLabel on the if
\* statement of its body
C26_Witness ==
    /\ ran = Returns("IdentifierCollectorUnlabelled", "MissingLabel", << >>)
    /\ label_ctn = 0
    /\ Len(hooks) = 3
    /\ VisitsUnlabelledIf(3)
    /\ hooks[2] = [hook |-> "visit_function", name |-> "f",
                   scopes |-> <<main_scope, <<"__main__", "f">>>>]
    /\ <<"__main__", "f">> \in DOMAIN identifiers

\* the scope stack inside the function or namespace `name` declared where
\* the stack is `chain`
Inside(chain, name) == Append(chain, Appended(chain[Len(chain)], name))

\* the methods a successful traversal invokes on a list of instructions and
\* the scope stack each of them is to find, read off the syntax tree: `chain`
\* is the module scope followed by the scopes of the functions and namespaces
\* that enclose the instructions
RECURSIVE ScopedOrder(_, _)
ScopedOrder(instrs, chain) ==
    IF instrs = << >> THEN << >>
    ELSE LET ins == Head(instrs)
         IN  (CASE ins.kind = "Const" ->
                       <<[hook |-> "visit_const_def", name |-> ins.name, scopes |-> chain]>>
                [] ins.kind = "Struct" ->
                       <<[hook |-> "visit_struct_def", name |-> ins.name, scopes |-> chain]>>
                [] ins.kind = "Import" ->
                       <<[hook |-> "visit_import", name |-> ins.name, scopes |-> chain]>>
                [] ins.kind = "If" ->
                       <<[hook |-> "visit_if", name |-> ins.label_neq, scopes |-> chain]>>
                       \o ScopedOrder(ins.instructions, chain)
                       \o ScopedOrder(ins.else_branch.items, chain)
                [] ins.kind = "Function" ->
                       <<[hook |-> "enter_function", name |-> ins.name, scopes |-> chain],
                         [hook |-> "visit_function", name |-> ins.name,
                          scopes |-> Inside(chain, ins.name)]>>
                       \o ScopedOrder(ins.instructions, Inside(chain, ins.name))
                       \o <<[hook |-> "exit_function", name |-> ins.name,
                             scopes |-> Inside(chain, ins.name)]>>
                [] ins.kind = "Namespace" ->
                       <<[hook |-> "enter_namespace", name |-> ins.name, scopes |-> chain],
                         [hook |-> "visit_namespace", name |-> ins.name,
                          scopes |-> Inside(chain, ins.name)]>>
                       \o ScopedOrder(ins.instructions, Inside(chain, ins.name))
                       \o <<[hook |-> "exit_namespace", name |-> ins.name,
                             scopes |-> Inside(chain, ins.name)]>>
                [] OTHER -> << >>)
             \o ScopedOrder(Tail(instrs), chain)

\* the same for the modules of the program, each under its module scope alone
RECURSIVE ProgramScopedOrder(_)
ProgramScopedOrder(mods) ==
    IF mods = << >> THEN << >>
    ELSE ScopedOrder(Head(mods).cairo_file, <<Head(mods).module_name>>)
         \o ProgramScopedOrder(Tail(mods))

\* the scope stack the identifier collector's own tracker holds when the
\* pass, run on the table and the program of this state, returns Ok
IdentifierCollectorLeaves(stack) ==
    LET v == IdentifierCollector_run(TableNow, modules)
    IN  v.res = "Ok" => v.st.accessible_scopes = stack

\* C27: every method the identifier collector and the struct collector
\* invoke finds the scope stack made of the module scope followed by the
\* scopes of the functions and namespaces entered and not yet left (those that
\* enclose the node; for visit_function, visit_namespace and the exit_
\* methods the node itself is the last of them); when the pass returns Ok
\* the stack is empty again, in the table's tracker for the struct collector
\* and in the pass's own tracker for the identifier collector.
C27_ScopeStackFollowsNesting ==
    /\ IsPrefix(hooks, ProgramScopedOrder(modules))
    /\ (ran.pass \in {"IdentifierCollector", "IdentifierCollectorUnlabelled",
                      "StructCollector"} /\ ran.res = "Ok") =>
           hooks = ProgramScopedOrder(modules)
    /\ ran = Returns("StructCollector", "Ok", << >>) =>
           scope_tracker.accessible_scopes = << >>
    /\ ran = Returns("UniqueLabel", "Ok", << >>) => IdentifierCollectorLeaves(<< >>)

\* the struct collector has succeeded on the module m and on the main module
\* that imports it: it has found the struct T under the scopes of the main
\* module and of its function f, the later constant Y under the main module
\* alone, and has left the stack empty
C27_Witness ==
    /\ ran = Returns("StructCollector", "Ok", << >>)
    /\ scope_tracker.accessible_scopes = << >>
    /\ \E i, j \in 1..Len(hooks) :
           /\ i < j
           /\ hooks[i] = [hook |-> "visit_struct_def", name |-> "T",
                          scopes |-> <<main_scope, <<"__main__", "f">>>>]
           /\ hooks[j] = [hook |-> "visit_const_def", name |-> "Y",
                          scopes |-> <<main_scope>>]
    /\ hooks[1].scopes = <<(<<"m">>)>>

\* the names of the structs a type holds by value: the type itself when it
\* is a name, the elements of a tuple, nothing behind a pointer
RECURSIVE ByValue(_)
ByValue(cairo_type) ==
    CASE cairo_type.ty = "Id" -> {cairo_type.name}
      [] cairo_type.ty = "Tuple" ->
             UNION {ByValue(cairo_type.items[i]) : i \in 1..Len(cairo_type.items)}
      [] OTHER -> {}

\* the struct declarations of a list of instructions found in the scope
\* `scope`, each with its full name
RECURSIVE StructsIn(_, _)
StructsIn(instrs, scope) ==
    IF instrs = << >> THEN {}
    ELSE LET ins == Head(instrs)
         IN  (CASE ins.kind = "Struct" ->
                       {[full_name |-> Appended(scope, ins.name), members |-> ins.members]}
                [] ins.kind \in {"Function", "Namespace"} ->
                       StructsIn(ins.instructions, Appended(scope, ins.name))
                [] ins.kind = "If" ->
                       StructsIn(ins.instructions, scope)
                       \cup StructsIn(ins.else_branch.items, scope)
                [] OTHER -> {})
             \cup StructsIn(Tail(instrs), scope)

ProgramStructs ==
    UNION {StructsIn(modules[i].cairo_file, modules[i].module_name) :
               i \in 1..Len(modules)}

\* the full name of the struct, function or namespace an invoked method is
\* about
HookedName(e) ==
    IF e.hook = "visit_struct_def"
    THEN Appended(e.scopes[Len(e.scopes)], e.name)
    ELSE e.scopes[Len(e.scopes)]

\* the structs a method of the struct collector can install
InstalledAt(e) ==
    CASE e.hook = "visit_struct_def" -> {HookedName(e)}
      [] e.hook \in {"visit_function", "visit_namespace"} ->
             {Appended(HookedName(e), n) : n \in {ARG_SCOPE, IMPLICIT_ARG_SCOPE, RETURN_SCOPE}}
      [] OTHER -> {}

\* the struct visited by the i-th method names by value, with a plain name,
\* itself or a struct its scope declares later
NamesUnfinishedStruct(i, members) ==
    \E k \in 1..Len(members) : \E x \in ByValue(members[k].ty) :
        /\ Len(x) = 1
        /\ \E j \in i..Len(ProgramScopedOrder(modules)) :
               /\ ProgramScopedOrder(modules)[j].hook = "visit_struct_def"
               /\ HookedName(ProgramScopedOrder(modules)[j])
                      = Appended(hooks[i].scopes[Len(hooks[i].scopes)], x[1])

\* the structs the members of an installed definition hold by value are
\* other structs, installed by a method invoked earlier
HoldsFinishedStructs(n) ==
    \A k \in 1..Len(identifiers[n].payload.members) :
        \A t \in ByValue(identifiers[n].payload.members[k].cairo_type) :
            /\ t # n
            /\ t \in InstalledStructs
            /\ \A i, j \in 1..Len(hooks) :
                   (n \in InstalledAt(hooks[i]) /\ t \in InstalledAt(hooks[j])) => j <= i

\* C28: the struct collector's visit of a struct that holds by value itself
\* or a struct declared later in its scope fails: it is the last method the
\* pass invokes, the pass returns an error and the struct has no definition.
\* Every definition the pass has installed holds by value only other structs
\* whose definitions were installed before it, so no size comes from an
\* unresolved struct.
C28_UnfinishedStructByValueIsRejected ==
    ran.pass = "StructCollector" =>
        /\ \A i \in 1..Len(hooks) : \A d \in ProgramStructs :
               (/\ hooks[i].hook = "visit_struct_def"
                /\ d.full_name = HookedName(hooks[i])
                /\ NamesUnfinishedStruct(i, d.members)) =>
                   /\ i = Len(hooks)
                   /\ ran.res # "Ok"
                   /\ d.full_name \notin InstalledStructs
        /\ \A n \in InstalledStructs : HoldsFinishedStructs(n)

\* struct T {x: felt}, struct S {x: T, y: (felt, S)}: T is installed, the
\* pass has failed with Definition on S, which has no definition, and has
\* not come to the constant X
C28_Witness ==
    /\ ran = Returns("StructCollector", "Definition", << >>)
    /\ InstalledStructs = {<<"__main__", "T">>}
    /\ Len(hooks) = 2
    /\ hooks[2] = [hook |-> "visit_struct_def", name |-> "S", scopes |-> <<main_scope>>]
    /\ is_unresolved_struct(Entry(<<"__main__", "S">>))
    /\ \E d \in ProgramStructs :
           d.full_name = <<"__main__", "S">> /\ NamesUnfinishedStruct(2, d.members)

\* C29: a call of add_name_definition or of the identifier collector's
\* add_identifier that returns an error (Redefinition, Preprocess for a kind
\* mismatch or for a name that is not registered) leaves the scope tree and
\* the flat map as they were before the call.
C29_FailedWriteLeavesTable ==
    [][(/\ last'.op \in {"add_name_definition", "collect_identifier"}
        /\ last'.res # "Ok") =>
           (root' = root /\ identifiers' = identifiers)]_vars

\* add_name_definition of a struct definition for a.b has returned
\* Redefinition: a.b holds the constant it held before, next to other names
C29_Witness ==
    /\ last.op = "add_name_definition"
    /\ last.name = <<"a", "b">>
    /\ last.ty = Struct(SomeStruct)
    /\ last.res = "Redefinition"
    /\ last.before = ConstDef
    /\ Entry(<<"a", "b">>) = ConstDef
    /\ <<"a", "b", "a">> \in DOMAIN identifiers

\* the modules a file names in import directives
FileImports(file) == {file[i].name : i \in {j \in 1..Len(file) : file[j].kind = "Import"}}

\* the modules the input files of the program import, directly or through
\* the modules they import
ImportedByInputs == UNION {ReachFrom(FileImports(codes[i].code)) : i \in 1..Len(codes)}

IsMainModule(m) == m.module_name = main_scope

\* C30: after ModuleCollector has succeeded the modules named main_scope are
\* the input files, one each and in their order, with the code that was
\* supplied; the other modules are the modules the input files import,
\* directly or not, each under its own name with the file the reader gives,
\* and none of these names stands twice in the list.
C30_InputsAreMainOthersOnce ==
    (ran.pass = "ModuleCollector" /\ ran.res = "Ok") =>
        /\ SelectSeq(modules, IsMainModule)
               = [i \in 1..Len(codes) |-> CairoModule(main_scope, codes[i].code)]
        /\ {m.module_name : m \in {n \in Range(modules) : ~IsMainModule(n)}}
               = {<<n>> : n \in ImportedByInputs}
        /\ \A i \in 1..Len(modules) :
               ~IsMainModule(modules[i]) =>
                   /\ modules[i].cairo_file = reader[modules[i].module_name[1]]
                   /\ \A j \in 1..Len(modules) :
                          modules[j].module_name = modules[i].module_name => i = j

\* the input files a (imports b and c) and b (imports c): a and the input b
\* are main modules, the file b of the reader is the module b, and c, which
\* both inputs import, stands once although the second collector held it too
C30_Witness ==
    /\ ran = [pass |-> "ModuleCollector", res |-> "Ok", name |-> << >>]
    /\ codes = <<CairoContent("a", <<Import("b"), Import("c")>>),
                 CairoContent("b", <<Import("c")>>)>>
    /\ reader["b"] = << >>
    /\ reader["c"] = << >>
    /\ Len(modules) = 4
    /\ modules[3] = CairoModule(<<"c">>, << >>)
    /\ modules[4] = CairoModule(main_scope, <<Import("c")>>)

====
